---------------------------- MODULE Spec2Model ----------------------------
(***************************************************************************)
(* Verification model of the halo2-scaffold example circuits.              *)
(*                                                                         *)
(* A circuit function records witness values in a Context and emits       *)
(* polynomial constraints over a prime field.  The model keeps, for each  *)
(* example, the values the function assigns and whether every constraint  *)
(* it emitted is satisfied by them.  Where the prover is free to choose a *)
(* witness (a cell that no gate determines), a second action lets it      *)
(* choose any value, so that soundness is decided by the constraints and  *)
(* not by the witness generator.                                          *)
(*                                                                         *)
(* Each example is a separate binary; it has its own variables and its    *)
(* own specification, and leaves the variables of the others untouched.   *)
(***************************************************************************)
EXTENDS Integers, Sequences, FiniteSets, TLC

VARIABLES
    \* examples/barrel_shift.rs
    arr,          \* the array cells, shifted in place
    start,        \* input.start
    end,          \* input.end
    arr0,         \* the input array (the public inputs pushed to make_public)
    mask,         \* the mask cells
    forged,       \* TRUE when the mask witnesses were chosen by the prover
    sat,          \* TRUE while every emitted constraint is satisfied
    bpc           \* position in var_subarray

VARIABLES
    \* examples/variable_subarray_shift_v2.rs
    array,          \* input.array
    vstart,         \* input.start
    vend,           \* input.end
    current_array,  \* the array being shifted
    output,         \* the cells pushed to make_public after the inputs
    vbit,           \* the index i of the shift loop
    vpc             \* position in variable_subarray_shift, or "panicked"

VARIABLES
    \* examples/cario.rs
    memory,       \* the memory cells (a sequence; address a is memory[a + 1])
    pc, ap, fp,   \* the registers
    prev,         \* the registers the last state_transition was called with
    wit,          \* the values in the free witness cells of the last call
    vmsat,        \* TRUE while every constraint emitted so far is satisfied
    cycle,        \* number of state_transition calls made by vm
    num_clock_cycles, \* number of calls vm makes
    ctx_ops,      \* the gate calls the last state_transition appended
    ctx_cells,    \* the number of cells in the Context
    vmpc          \* "run", "halt" (vm returned) or "panicked"

VARIABLES
    \* examples/int_div.rs and examples/int_div_underconstrained.rs
    div_x,        \* input.x, loaded as a witness
    div_out,      \* input.out
    div_quot,     \* the witness quot
    div_rem,      \* the witness rem
    div_sat,      \* TRUE when every emitted constraint is satisfied
    div_public,   \* make_public
    div_pc        \* "call", "done" or "panicked"

VARIABLES
    \* examples/poly_reduce.rs
    poly,         \* input.poly
    poly_out,     \* input.out
    rem_assigned, \* the remainders assigned so far
    poly_sat,     \* TRUE while every emitted constraint is satisfied
    poly_public,  \* make_public
    poly_pc       \* "div_mod", "publish", "done" or "panicked"

VARIABLES
    \* examples/builder.rs
    bx,           \* the input x, loaded as a witness
    b_out,        \* out of way 1
    b_val,        \* the cell assigned by way 2
    b_val3,       \* the cell assigned by way 3
    b_sat,        \* TRUE while every emitted constraint is satisfied
    b_public,     \* make_public
    b_pc          \* "way1", "way2", "way3", "assert", "done" or "panicked"

VARIABLES
    \* examples/var_len_keccak.rs and examples/fixed_len_keccak.rs
    k_variant,    \* "var" or "fixed": which of the two binaries runs
    k_bytes,      \* input.padded_bytes, or input.bytes
    k_len,        \* input.len
    k_out,        \* out_bytes
    k_sat,        \* TRUE while every emitted constraint is satisfied
    k_public,     \* make_public
    k_pc          \* "load", "hash", "done" or "panicked"

VARIABLES
    \* scaffold/mod.rs: EthScaffold::create_circuit
    e_stage,      \* stage: "Mock", "Keygen" or "Prover"
    e_pinning,    \* TRUE when pinning is Some
    e_env,        \* the environment variable LOOKUP_BITS, or Unset
    e_user,       \* the user's function: what it returns, whether it panics
    e_f_runs,     \* number of calls of self.f so far
    e_f_phase1,   \* f_phase1, the callback returned by self.f, or "none"
    e_closure,    \* the callback the closure handed to EthCircuitBuilder holds
    e_invoked,    \* the calls of the closure so far, in order
    e_configured, \* TRUE once circuit.config was called
    e_pc          \* "begin", "phase0", "build", "built" or "panicked"

VARIABLES
    \* examples/range.rs, and range_check on its own
    r_mode,       \* "check": one range_check; "mock": the binary's mock()
    r_v,          \* the value checked (x in mock)
    r_bits,       \* the bits it is checked to
    r_lookup,     \* lookup_bits
    r_k,          \* the degree k of mock
    r_limbs,      \* the limbs the witness generator assigns
    r_sat,        \* TRUE when they satisfy the constraints
    r_possible,   \* TRUE when some limbs satisfy the constraints
    r_pc          \* "call", "done" or "panicked"

VARIABLES
    \* gate.select at its call sites
    s_site,       \* "gate": select on its own; "op0": compute_op0 of cario.rs
    s_a, s_b,     \* the two values selected from
    s_cond,       \* the condition cell
    s_out,        \* the value assigned to the output cell
    s_forged,     \* TRUE when out was not assigned by the witness generator
    s_sat,        \* TRUE when the select constraint holds on the cells
    s_pc          \* "call" or "done"

VARIABLES
    \* run_cli of scaffold/mod.rs, one circuit name
    c_dirs,       \* TRUE when the config and data directories exist
    c_fs,         \* the files name.pk, name.vk, name.snark, name.json:
                  \* 0 when absent, else the number of the command that wrote it
    c_prev,       \* c_fs as the last command found it
    c_log         \* the commands run so far, each with how it ended

VARIABLES
    \* public instances in mock and prove of src/scaffold.rs
    i_mode,         \* "mock" or "prove"
    i_lookup,       \* TRUE when LOOKUP_BITS is set: the range builder is used
    i_pushes,       \* the user function: the cells it pushes, in order
    i_private,      \* the cell values it assigns on private_inputs
    i_dummy,        \* the cell values it assigns on dummy_inputs
    i_advice,       \* the advice cells of the builder last populated
    i_inst,         \* assigned_instances of the builder last populated
    i_public_io,    \* public_io
    i_constraints,  \* the constrain_instance calls made: <<cell, row>>
    i_table,        \* TRUE when the lookup table was loaded
    i_proof_io,     \* the instances create_proof was given
    i_verify_io,    \* the instances the mock prover or verify_proof was given
    i_sat,          \* TRUE when they agree with the constrained cells
    i_pc

VARIABLES
    \* LOOKUP_BITS against the degree: CircuitScaffold::create_circuit, and
    \* mock and prove of src/scaffold.rs
    l_entry,        \* "create_circuit", "mock" or "prove"
    l_stage,        \* the CircuitBuilderStage of create_circuit
    l_pinning,      \* TRUE when create_circuit is given a pinning
    l_env,          \* LOOKUP_BITS: Unset, NotNumber or a number
    l_k,            \* the degree k
    l_lookup_bits,  \* lookup_bits once read
    l_f_calls,      \* how often the user function was invoked
    l_out,          \* "running", "ok" or the panic message
    l_pc

VARIABLES
    \* circuits/is_zero.rs
    z_x,          \* the private input x of IsZeroCircuit
    z_rows,       \* the region: per row the cells x, y, out and the selector
    z_copies,     \* the equality constraints: <<column, row, column, row>>
    z_forged,     \* TRUE when y and out of row 0 were not assigned by synthesize
    z_first,      \* TRUE when the first constraint holds on every row
    z_sat,        \* TRUE when the mock prover is satisfied
    z_pc          \* "synthesize", "assigned" or "done"

VARIABLES
    \* circuits/or.rs
    o_a, o_b,     \* the private inputs of OrCircuit
    o_rows,       \* the region: per row the witness cell and the selector
    o_forged,     \* TRUE when the output cell was not assigned by synthesize
    o_sat,        \* TRUE when the mock prover is satisfied
    o_pc          \* "synthesize", "assigned", "panicked" or "done"

VARIABLES
    \* circuits/standard_plonk.rs
    p_x,          \* the private input x of StandardPlonk
    p_rows,       \* the region: per row the advice cells a, b, c and the
                  \* fixed cells q_a, q_b, q_c, q_ab, constant
    p_copies,     \* the equality constraints: <<column, row, column, row>>
    p_sat,        \* TRUE when the mock prover is satisfied
    p_pc          \* "synthesize", "assigned" or "done"

VARIABLES
    \* examples/merkletree.rs, verify_merkle_proof
    m_root,       \* inputs[0]: the tree root supplied
    m_leaf,       \* inputs[1]: the leaf
    m_path,       \* the rest of inputs: per level the node and the direction b0
    m_cur,        \* cur_hash
    m_i,          \* the level the loop is at
    m_equal,      \* the cell gate.is_equal returned
    m_public,     \* make_public
    m_sat,        \* TRUE when every constraint emitted so far holds
    m_pc          \* "load", "loop", "finish" or "done"

VARIABLES
    \* the layout in CircuitScaffold::create_circuit and
    \* EthScaffold::create_circuit
    y_scaffold,     \* "circuit" or "eth"
    y_stage,        \* the CircuitBuilderStage
    y_pinning,      \* the break points of the pinning given, or Unset
    y_user,         \* the circuit function: the rows it records, if it panics
    y_recorded,     \* the rows recorded in the builder so far
    y_config_runs,  \* how often config was run
    y_configured,   \* the rows config saw and laid out, or Unset
    y_break_points, \* the break points of the circuit built, or Unset
    y_out,          \* "running", "ok" or the panic message
    y_pc

VARIABLES
    \* decode_instruction of cario.rs on its own
    d_instruction,  \* the instruction word
    d_decoded,      \* the DecodedInstruction
    d_pc            \* "decode" or "done"

VARIABLES
    \* compute_next_ap_fp of cario.rs on its own
    n_in,    \* its arguments
    n_out,   \* what it returns and whether its constraints hold
    n_pc     \* "call", "returned" or "panicked"

VARIABLES
    \* polymul.rs
    pm_input,    \* CircuitInput: the coefficients a and b
    pm_build,    \* "debug" (overflow checks on) or "release" (u8 wraps)
    pm_cells,    \* the assigned cells a_evals, b_evals, prod_evals and val
    pm_forged,   \* a prover changed a cell
    pm_public,   \* make_public
    pm_sat,      \* the emitted constraints hold on the cells
    pm_pc        \* "start", "assigned", "enforced", "done" or "panicked"

VARIABLES
    \* merkletree_prove.rs
    g_id0,        \* prove_id as line 71 sets it
    g_prove_id,   \* prove_id
    g_proof_vec,  \* proof_vec, indexed from 0
    g_level,      \* proof_vec as it was when the current level began
    g_sz,         \* sz
    g_i,          \* the level i of the outer loop
    g_j,          \* the index j of the inner loop
    g_out,        \* the lines printed
    g_pc          \* "start", "level", "hash" or "done"

barrelVars == <<arr, start, end, arr0, mask, forged, sat, bpc>>

vmVars == <<memory, pc, ap, fp, prev, wit, vmsat, cycle, num_clock_cycles,
           ctx_ops, ctx_cells, vmpc>>

shiftV2Vars == <<array, vstart, vend, current_array, output, vbit, vpc>>

intDivVars == <<div_x, div_out, div_quot, div_rem, div_sat, div_public, div_pc>>

polyVars == <<poly, poly_out, rem_assigned, poly_sat, poly_public, poly_pc>>

builderVars == <<bx, b_out, b_val, b_val3, b_sat, b_public, b_pc>>

keccakVars == <<k_variant, k_bytes, k_len, k_out, k_sat, k_public, k_pc>>

\* the examples settled first, and the ones added after them
firstVars == <<barrelVars, shiftV2Vars, vmVars, intDivVars, polyVars, builderVars>>

ethVars == <<e_stage, e_pinning, e_env, e_user, e_f_runs, e_f_phase1, e_closure,
            e_invoked, e_configured, e_pc>>

rangeVars == <<r_mode, r_v, r_bits, r_lookup, r_k, r_limbs, r_sat, r_possible, r_pc>>

selectVars == <<s_site, s_a, s_b, s_cond, s_out, s_forged, s_sat, s_pc>>

cliVars == <<c_dirs, c_fs, c_prev, c_log>>

instVars == <<i_mode, i_lookup, i_pushes, i_private, i_dummy, i_advice, i_inst,
              i_public_io, i_constraints, i_table, i_proof_io, i_verify_io,
              i_sat, i_pc>>

lookupVars == <<l_entry, l_stage, l_pinning, l_env, l_k, l_lookup_bits,
                l_f_calls, l_out, l_pc>>

isZeroVars == <<z_x, z_rows, z_copies, z_forged, z_first, z_sat, z_pc>>

orVars == <<o_a, o_b, o_rows, o_forged, o_sat, o_pc>>

plonkVars == <<p_x, p_rows, p_copies, p_sat, p_pc>>

merkleVars == <<m_root, m_leaf, m_path, m_cur, m_i, m_equal, m_public, m_sat, m_pc>>

layoutVars == <<y_scaffold, y_stage, y_pinning, y_user, y_recorded, y_config_runs, y_configured, y_break_points, y_out, y_pc>>

decodeVars == <<d_instruction, d_decoded, d_pc>>

nextApFpVars == <<n_in, n_out, n_pc>>

polyMulVars == <<pm_input, pm_build, pm_cells, pm_forged, pm_public, pm_sat, pm_pc>>

proveVars == <<g_id0, g_prove_id, g_proof_vec, g_level, g_sz, g_i, g_j, g_out, g_pc>>

vars == <<firstVars, keccakVars, ethVars, rangeVars, selectVars, cliVars, instVars,
          lookupVars,
          isZeroVars,
          orVars,
          plonkVars,
          merkleVars,
          layoutVars,
          decodeVars,
          nextApFpVars,
          polyMulVars,
          proveVars>>

\* the variables of the examples added after the first six
laterVars == <<keccakVars, ethVars, rangeVars, selectVars, cliVars, instVars,
               lookupVars,
               isZeroVars,
               orVars,
               plonkVars,
               merkleVars,
               layoutVars,
               decodeVars,
               nextApFpVars,
               polyMulVars,
               proveVars>>

\* what the actions of one example leave unchanged
othersOfBarrel == <<shiftV2Vars, vmVars, intDivVars, polyVars, builderVars, laterVars>>
othersOfShiftV2 == <<barrelVars, vmVars, intDivVars, polyVars, builderVars, laterVars>>
othersOfVm == <<barrelVars, shiftV2Vars, intDivVars, polyVars, builderVars, laterVars>>
othersOfIntDiv == <<barrelVars, shiftV2Vars, vmVars, polyVars, builderVars, laterVars>>
othersOfPoly == <<barrelVars, shiftV2Vars, vmVars, intDivVars, builderVars, laterVars>>
othersOfKeccak == <<firstVars, ethVars, rangeVars, selectVars, cliVars, instVars, lookupVars,
    isZeroVars,
    orVars,
    plonkVars,
    merkleVars,
    layoutVars,
    decodeVars,
    nextApFpVars,
    polyMulVars,
    proveVars>>
othersOfEth == <<firstVars, keccakVars, rangeVars, selectVars, cliVars, instVars, lookupVars,
    isZeroVars,
    orVars,
    plonkVars,
    merkleVars,
    layoutVars,
    decodeVars,
    nextApFpVars,
    polyMulVars,
    proveVars>>
othersOfRange == <<firstVars, keccakVars, ethVars, selectVars, cliVars, instVars, lookupVars,
    isZeroVars,
    orVars,
    plonkVars,
    merkleVars,
    layoutVars,
    decodeVars,
    nextApFpVars,
    polyMulVars,
    proveVars>>
othersOfSelect == <<firstVars, keccakVars, ethVars, rangeVars, cliVars, instVars, lookupVars,
    isZeroVars,
    orVars,
    plonkVars,
    merkleVars,
    layoutVars,
    decodeVars,
    nextApFpVars,
    polyMulVars,
    proveVars>>
othersOfCli == <<firstVars, keccakVars, ethVars, rangeVars, selectVars, instVars, lookupVars,
    isZeroVars,
    orVars,
    plonkVars,
    merkleVars,
    layoutVars,
    decodeVars,
    nextApFpVars,
    polyMulVars,
    proveVars>>
othersOfInst == <<firstVars, keccakVars, ethVars, rangeVars, selectVars, cliVars, lookupVars,
    isZeroVars,
    orVars,
    plonkVars,
    merkleVars,
    layoutVars,
    decodeVars,
    nextApFpVars,
    polyMulVars,
    proveVars>>
othersOfLookup == <<firstVars, keccakVars, ethVars, rangeVars, selectVars, cliVars, instVars,
    isZeroVars,
    orVars,
    plonkVars,
    merkleVars,
    layoutVars,
    decodeVars,
    nextApFpVars,
    polyMulVars,
    proveVars>>
othersOfIsZero == <<firstVars, keccakVars, ethVars, rangeVars, selectVars, cliVars, instVars, lookupVars,
    orVars,
    plonkVars,
    merkleVars,
    layoutVars,
    decodeVars,
    nextApFpVars,
    polyMulVars,
    proveVars>>
othersOfOr == <<firstVars, keccakVars, ethVars, rangeVars, selectVars, cliVars, instVars, lookupVars, isZeroVars,
    plonkVars,
    merkleVars,
    layoutVars,
    decodeVars,
    nextApFpVars,
    polyMulVars,
    proveVars>>
othersOfPlonk == <<firstVars, keccakVars, ethVars, rangeVars, selectVars, cliVars, instVars, lookupVars, isZeroVars, orVars,
    merkleVars,
    layoutVars,
    decodeVars,
    nextApFpVars,
    polyMulVars,
    proveVars>>
othersOfMerkle == <<firstVars, keccakVars, ethVars, rangeVars, selectVars, cliVars, instVars, lookupVars, isZeroVars, orVars, plonkVars,
    layoutVars,
    decodeVars,
    nextApFpVars,
    polyMulVars,
    proveVars>>
othersOfLayout == <<firstVars, keccakVars, ethVars, rangeVars, selectVars, cliVars, instVars, lookupVars, isZeroVars, orVars, plonkVars, merkleVars,
    decodeVars,
    nextApFpVars,
    polyMulVars,
    proveVars>>
othersOfDecode == <<firstVars, keccakVars, ethVars, rangeVars, selectVars, cliVars, instVars, lookupVars, isZeroVars, orVars, plonkVars, merkleVars, layoutVars,
    nextApFpVars,
    polyMulVars,
    proveVars>>
othersOfNextApFp == <<firstVars, keccakVars, ethVars, rangeVars, selectVars, cliVars, instVars, lookupVars, isZeroVars, orVars, plonkVars, merkleVars, layoutVars, decodeVars,
    polyMulVars,
    proveVars>>
othersOfPolyMul == <<firstVars, keccakVars, ethVars, rangeVars, selectVars, cliVars, instVars, lookupVars, isZeroVars, orVars, plonkVars, merkleVars, layoutVars, decodeVars, nextApFpVars,
    proveVars>>
othersOfProve == <<firstVars, keccakVars, ethVars, rangeVars, selectVars, cliVars, instVars, lookupVars, isZeroVars, orVars, plonkVars, merkleVars, layoutVars, decodeVars, nextApFpVars, polyMulVars>>
othersOfBuilder == <<barrelVars, shiftV2Vars, vmVars, intDivVars, polyVars, laterVars>>

---------------------------------------------------------------------------
(* Bounds of the model.                                                    *)

\* length of the array of the shift examples (1000 in the source)
ArrLen == 3
\* number of bits of start that the barrel shifter decomposes (10 in the source)
NumBits == 2
\* largest array entry drawn
MaxVal == 1
\* largest value a prover-chosen witness is drawn from
MaxWit == 2

---------------------------------------------------------------------------
(* The scalar field.  The source is generic in F: ScalarField and is run  *)
(* with the BN254 scalar field; the model uses the prime 2^22 - 3, large   *)
(* enough that no quantity of the model that the source keeps below the    *)
(* modulus wraps.                                                          *)

FieldP == 4194301

Pow2(n) == 2 ^ n

Min(a, b) == IF a <= b THEN a ELSE b

FAdd(a, b) == (a + b) % FieldP

FNeg(a) == (FieldP - a) % FieldP

FSub(a, b) == (a + FieldP - b) % FieldP

\* a * b mod FieldP; for a large b by 8-bit limbs of b, so that no
\* intermediate product exceeds 31 bits
FMul(a, b) ==
    IF b < 256 THEN (a * b) % FieldP
    ELSE LET b0 == b % 256
             b1 == (b \div 256) % 256
             b2 == b \div 65536
             h2 == (a * b2) % FieldP
             h1 == (h2 * 256 + a * b1) % FieldP
         IN  (h1 * 256 + a * b0) % FieldP

RECURSIVE FPow(_, _)
FPow(a, n) ==
    IF n = 0 THEN 1
    ELSE LET h == FPow(a, n \div 2)
             s == FMul(h, h)
         IN  IF n % 2 = 1 THEN FMul(s, a) ELSE s

\* extended Euclid on (r0, r1) with the cofactors (t0, t1) of a: the
\* cofactor of the greatest common divisor
RECURSIVE EuclidCofactor(_, _, _, _)
EuclidCofactor(r0, r1, t0, t1) ==
    IF r1 = 0 THEN t0
    ELSE EuclidCofactor(r1, r0 % r1, t1, t0 - (r0 \div r1) * t1)

\* the inverse of a non-zero element
FInv(a) == (EuclidCofactor(FieldP, a, 0, 1) + FieldP) % FieldP

\* F::from(u64) of a value below the modulus
FFrom(n) == n % FieldP

---------------------------------------------------------------------------
(* Gate chip primitives: the value each one assigns.  Each emits the       *)
(* constraint that ties its output cell to its inputs, so the output is    *)
(* determined by the inputs.                                               *)

\* gate.add: a + b - out = 0
GateAdd(a, b) == FAdd(a, b)

\* gate.sub: a - b - out = 0
GateSub(a, b) == FSub(a, b)

\* gate.mul: a * b - out = 0
GateMul(a, b) == FMul(a, b)

\* gate.mul_add: a * b + c - out = 0
GateMulAdd(a, b, c) == FAdd(FMul(a, b), c)

\* gate.and: a * b - out = 0
GateAnd(a, b) == FMul(a, b)

\* gate.select(a, b, sel): sel * (a - b) + b - out = 0
GateSelect(a, b, sel) == FAdd(FMul(sel, FSub(a, b)), b)

\* gate.assert_bit: a * (a - 1) = 0
AssertBitHolds(a) == FMul(a, FSub(a, 1)) = 0

\* gate.is_zero: 1 when a = 0, else 0 (the inverse witness and the
\* companion check a * out = 0 make the output unique)
GateIsZero(a) == IF a = 0 THEN 1 ELSE 0

\* gate.is_equal(a, b) = is_zero(a - b)
GateIsEqual(a, b) == GateIsZero(FSub(a, b))

\* gate.num_to_bits(a, n): the n low bits of a, little endian
NumToBits(a, n) == [i \in 0..(n - 1) |-> (a \div Pow2(i)) % 2]

\* the constraint of num_to_bits is satisfiable only below 2^n
NumToBitsHolds(a, n) == a < Pow2(n)

\* gate.sum of cells c[0..n-1]
RECURSIVE GateSum(_, _)
GateSum(c, n) == IF n = 0 THEN 0 ELSE FAdd(GateSum(c, n - 1), c[n - 1])

\* range.is_less_than(a, b, num_bits) for a, b below 2^num_bits: 1 when a < b
RangeIsLessThan(a, b, num_bits) == IF a < b THEN 1 ELSE 0

---------------------------------------------------------------------------
(* The variables of an example that is not the one being run.              *)

Idx == 0..(ArrLen - 1)

ZeroArray == [i \in Idx |-> 0]

BarrelIdle ==
    /\ arr = ZeroArray /\ arr0 = ZeroArray /\ mask = ZeroArray
    /\ start = 0 /\ end = 0 /\ forged = FALSE /\ sat = TRUE /\ bpc = 0

ShiftV2Idle ==
    /\ array = ZeroArray /\ current_array = ZeroArray /\ output = ZeroArray
    /\ vstart = 0 /\ vend = 0 /\ vbit = 0 /\ vpc = "idle"

VmIdle ==
    /\ memory = <<>> /\ pc = 0 /\ ap = 0 /\ fp = 0 /\ prev = <<0, 0, 0>>
    /\ wit = 0 /\ vmsat = TRUE /\ cycle = 0 /\ num_clock_cycles = 0
    /\ ctx_ops = <<>> /\ ctx_cells = 0
    /\ vmpc = "idle"

IntDivIdle ==
    /\ div_x = 0 /\ div_out = 0 /\ div_quot = 0 /\ div_rem = 0
    /\ div_sat = TRUE /\ div_public = <<>> /\ div_pc = "idle"

PolyIdle ==
    /\ poly = <<>> /\ poly_out = <<>> /\ rem_assigned = <<>>
    /\ poly_sat = TRUE /\ poly_public = <<>> /\ poly_pc = "idle"

BuilderIdle ==
    /\ bx = 0 /\ b_out = 0 /\ b_val = 0 /\ b_val3 = 0
    /\ b_sat = TRUE /\ b_public = <<>> /\ b_pc = "idle"

KeccakIdle ==
    /\ k_variant = "idle" /\ k_bytes = <<>> /\ k_len = 0 /\ k_out = <<>>
    /\ k_sat = TRUE /\ k_public = <<>> /\ k_pc = "idle"

FirstIdle ==
    BarrelIdle /\ ShiftV2Idle /\ VmIdle /\ IntDivIdle /\ PolyIdle /\ BuilderIdle

EthIdle ==
    /\ e_stage = "idle" /\ e_pinning = FALSE /\ e_env = 0 - 1
    /\ e_user = [returns |-> "none", panics |-> FALSE]
    /\ e_f_runs = 0 /\ e_f_phase1 = "none" /\ e_closure = "none"
    /\ e_invoked = <<>> /\ e_configured = FALSE /\ e_pc = "idle"

\* the examples added after the first six are idle
RangeIdle ==
    /\ r_mode = "idle" /\ r_v = 0 /\ r_bits = 0 /\ r_lookup = 0 /\ r_k = 0
    /\ r_limbs = <<>> /\ r_sat = TRUE /\ r_possible = TRUE /\ r_pc = "idle"

SelectIdle ==
    /\ s_site = "idle" /\ s_a = 0 /\ s_b = 0 /\ s_cond = 0 /\ s_out = 0
    /\ s_forged = FALSE /\ s_sat = TRUE /\ s_pc = "idle"

NoFiles == [pk |-> 0, vk |-> 0, snark |-> 0, json |-> 0]

CliIdle ==
    /\ c_dirs = FALSE /\ c_fs = NoFiles /\ c_prev = NoFiles /\ c_log = <<>>

InstIdle ==
    /\ i_mode = "idle" /\ i_lookup = FALSE /\ i_pushes = <<>>
    /\ i_private = <<>> /\ i_dummy = <<>> /\ i_advice = <<>> /\ i_inst = <<>>
    /\ i_public_io = <<>> /\ i_constraints = {} /\ i_table = FALSE
    /\ i_proof_io = <<>> /\ i_verify_io = <<>> /\ i_sat = TRUE /\ i_pc = "idle"

LookupIdle ==
    /\ l_entry = "idle" /\ l_stage = "idle" /\ l_pinning = FALSE /\ l_env = 0 - 1
    /\ l_k = 0 /\ l_lookup_bits = 0 - 1 /\ l_f_calls = 0 /\ l_out = "idle"
    /\ l_pc = "idle"

IsZeroIdle ==
    /\ z_x = 0 /\ z_rows = <<>> /\ z_copies = {} /\ z_forged = FALSE
    /\ z_first = TRUE /\ z_sat = TRUE /\ z_pc = "idle"

OrIdle ==
    /\ o_a = 0 /\ o_b = 0 /\ o_rows = <<>> /\ o_forged = FALSE /\ o_sat = TRUE
    /\ o_pc = "idle"

PlonkIdle ==
    /\ p_x = 0 /\ p_rows = <<>> /\ p_copies = {} /\ p_sat = TRUE /\ p_pc = "idle"

MerkleIdle ==
    /\ m_root = 0 /\ m_leaf = 0 /\ m_path = <<>> /\ m_cur = 0 /\ m_i = 0
    /\ m_equal = 0 /\ m_public = <<>> /\ m_sat = TRUE /\ m_pc = "idle"

LayoutIdle ==
    /\ y_scaffold = "idle" /\ y_stage = "idle" /\ y_pinning = 0 - 1
    /\ y_user = [rows |-> 0, panics |-> FALSE] /\ y_recorded = 0
    /\ y_config_runs = 0 /\ y_configured = 0 - 1 /\ y_break_points = 0 - 1
    /\ y_out = "idle" /\ y_pc = "idle"

DecodeIdle ==
    /\ d_instruction = 0 /\ d_decoded = <<>> /\ d_pc = "idle"

NextApFpIdle ==
    /\ n_in = <<>> /\ n_out = <<>> /\ n_pc = "idle"

PolyMulIdle ==
    /\ pm_input = <<>> /\ pm_build = "none" /\ pm_cells = <<>>
    /\ pm_forged = FALSE /\ pm_public = <<>> /\ pm_sat = TRUE /\ pm_pc = "idle"

ProveIdle ==
    /\ g_id0 = 0 /\ g_prove_id = 0 /\ g_proof_vec = <<>> /\ g_level = <<>>
    /\ g_sz = 0 /\ g_i = 0 /\ g_j = 0 /\ g_out = <<>> /\ g_pc = "idle"

LaterIdle == KeccakIdle /\ EthIdle /\ RangeIdle /\ SelectIdle /\ CliIdle /\ InstIdle /\ LookupIdle
    /\ IsZeroIdle
    /\ OrIdle
    /\ PlonkIdle
    /\ MerkleIdle
    /\ LayoutIdle
    /\ DecodeIdle
    /\ NextApFpIdle
    /\ PolyMulIdle
    /\ ProveIdle

IdleExceptKeccak == FirstIdle /\ EthIdle /\ RangeIdle /\ SelectIdle /\ CliIdle /\ InstIdle /\ LookupIdle
    /\ IsZeroIdle
    /\ OrIdle
    /\ PlonkIdle
    /\ MerkleIdle
    /\ LayoutIdle
    /\ DecodeIdle
    /\ NextApFpIdle
    /\ PolyMulIdle
    /\ ProveIdle
IdleExceptEth == FirstIdle /\ KeccakIdle /\ RangeIdle /\ SelectIdle /\ CliIdle /\ InstIdle /\ LookupIdle
    /\ IsZeroIdle
    /\ OrIdle
    /\ PlonkIdle
    /\ MerkleIdle
    /\ LayoutIdle
    /\ DecodeIdle
    /\ NextApFpIdle
    /\ PolyMulIdle
    /\ ProveIdle
IdleExceptRange == FirstIdle /\ KeccakIdle /\ EthIdle /\ SelectIdle /\ CliIdle /\ InstIdle /\ LookupIdle
    /\ IsZeroIdle
    /\ OrIdle
    /\ PlonkIdle
    /\ MerkleIdle
    /\ LayoutIdle
    /\ DecodeIdle
    /\ NextApFpIdle
    /\ PolyMulIdle
    /\ ProveIdle
IdleExceptSelect == FirstIdle /\ KeccakIdle /\ EthIdle /\ RangeIdle /\ CliIdle /\ InstIdle /\ LookupIdle
    /\ IsZeroIdle
    /\ OrIdle
    /\ PlonkIdle
    /\ MerkleIdle
    /\ LayoutIdle
    /\ DecodeIdle
    /\ NextApFpIdle
    /\ PolyMulIdle
    /\ ProveIdle
IdleExceptCli == FirstIdle /\ KeccakIdle /\ EthIdle /\ RangeIdle /\ SelectIdle /\ InstIdle /\ LookupIdle
    /\ IsZeroIdle
    /\ OrIdle
    /\ PlonkIdle
    /\ MerkleIdle
    /\ LayoutIdle
    /\ DecodeIdle
    /\ NextApFpIdle
    /\ PolyMulIdle
    /\ ProveIdle
IdleExceptInst == FirstIdle /\ KeccakIdle /\ EthIdle /\ RangeIdle /\ SelectIdle /\ CliIdle /\ LookupIdle
    /\ IsZeroIdle
    /\ OrIdle
    /\ PlonkIdle
    /\ MerkleIdle
    /\ LayoutIdle
    /\ DecodeIdle
    /\ NextApFpIdle
    /\ PolyMulIdle
    /\ ProveIdle
IdleExceptLookup == FirstIdle /\ KeccakIdle /\ EthIdle /\ RangeIdle /\ SelectIdle /\ CliIdle /\ InstIdle
    /\ IsZeroIdle
    /\ OrIdle
    /\ PlonkIdle
    /\ MerkleIdle
    /\ LayoutIdle
    /\ DecodeIdle
    /\ NextApFpIdle
    /\ PolyMulIdle
    /\ ProveIdle
IdleExceptIsZero == FirstIdle /\ KeccakIdle /\ EthIdle /\ RangeIdle /\ SelectIdle /\ CliIdle /\ InstIdle /\ LookupIdle
    /\ OrIdle
    /\ PlonkIdle
    /\ MerkleIdle
    /\ LayoutIdle
    /\ DecodeIdle
    /\ NextApFpIdle
    /\ PolyMulIdle
    /\ ProveIdle
IdleExceptOr == FirstIdle /\ KeccakIdle /\ EthIdle /\ RangeIdle /\ SelectIdle /\ CliIdle /\ InstIdle /\ LookupIdle /\ IsZeroIdle
    /\ PlonkIdle
    /\ MerkleIdle
    /\ LayoutIdle
    /\ DecodeIdle
    /\ NextApFpIdle
    /\ PolyMulIdle
    /\ ProveIdle
IdleExceptPlonk == FirstIdle /\ KeccakIdle /\ EthIdle /\ RangeIdle /\ SelectIdle /\ CliIdle /\ InstIdle /\ LookupIdle /\ IsZeroIdle /\ OrIdle
    /\ MerkleIdle
    /\ LayoutIdle
    /\ DecodeIdle
    /\ NextApFpIdle
    /\ PolyMulIdle
    /\ ProveIdle
IdleExceptMerkle == FirstIdle /\ KeccakIdle /\ EthIdle /\ RangeIdle /\ SelectIdle /\ CliIdle /\ InstIdle /\ LookupIdle /\ IsZeroIdle /\ OrIdle /\ PlonkIdle
    /\ LayoutIdle
    /\ DecodeIdle
    /\ NextApFpIdle
    /\ PolyMulIdle
    /\ ProveIdle
IdleExceptLayout == FirstIdle /\ KeccakIdle /\ EthIdle /\ RangeIdle /\ SelectIdle /\ CliIdle /\ InstIdle /\ LookupIdle /\ IsZeroIdle /\ OrIdle /\ PlonkIdle /\ MerkleIdle
    /\ DecodeIdle
    /\ NextApFpIdle
    /\ PolyMulIdle
    /\ ProveIdle
IdleExceptDecode == FirstIdle /\ KeccakIdle /\ EthIdle /\ RangeIdle /\ SelectIdle /\ CliIdle /\ InstIdle /\ LookupIdle /\ IsZeroIdle /\ OrIdle /\ PlonkIdle /\ MerkleIdle /\ LayoutIdle
    /\ NextApFpIdle
    /\ PolyMulIdle
    /\ ProveIdle
IdleExceptNextApFp == FirstIdle /\ KeccakIdle /\ EthIdle /\ RangeIdle /\ SelectIdle /\ CliIdle /\ InstIdle /\ LookupIdle /\ IsZeroIdle /\ OrIdle /\ PlonkIdle /\ MerkleIdle /\ LayoutIdle /\ DecodeIdle
    /\ PolyMulIdle
    /\ ProveIdle
IdleExceptPolyMul == FirstIdle /\ KeccakIdle /\ EthIdle /\ RangeIdle /\ SelectIdle /\ CliIdle /\ InstIdle /\ LookupIdle /\ IsZeroIdle /\ OrIdle /\ PlonkIdle /\ MerkleIdle /\ LayoutIdle /\ DecodeIdle /\ NextApFpIdle
    /\ ProveIdle
IdleExceptProve == FirstIdle /\ KeccakIdle /\ EthIdle /\ RangeIdle /\ SelectIdle /\ CliIdle /\ InstIdle /\ LookupIdle /\ IsZeroIdle /\ OrIdle /\ PlonkIdle /\ MerkleIdle /\ LayoutIdle /\ DecodeIdle /\ NextApFpIdle /\ PolyMulIdle

IdleExceptBarrel == ShiftV2Idle /\ VmIdle /\ IntDivIdle /\ PolyIdle /\ BuilderIdle /\ LaterIdle
IdleExceptShiftV2 == BarrelIdle /\ VmIdle /\ IntDivIdle /\ PolyIdle /\ BuilderIdle /\ LaterIdle
IdleExceptVm == BarrelIdle /\ ShiftV2Idle /\ IntDivIdle /\ PolyIdle /\ BuilderIdle /\ LaterIdle
IdleExceptIntDiv == BarrelIdle /\ ShiftV2Idle /\ VmIdle /\ PolyIdle /\ BuilderIdle /\ LaterIdle
IdleExceptPoly == BarrelIdle /\ ShiftV2Idle /\ VmIdle /\ IntDivIdle /\ BuilderIdle /\ LaterIdle
IdleExceptBuilder == BarrelIdle /\ ShiftV2Idle /\ VmIdle /\ IntDivIdle /\ PolyIdle /\ LaterIdle

---------------------------------------------------------------------------
(* examples/barrel_shift.rs: var_subarray                                  *)

\* ShiftPass with the source cell taken from below instead of from above
RECURSIVE ShiftPassDown(_, _, _, _)
ShiftPassDown(a, d, bit, i) ==
    IF i = ArrLen THEN a
    ELSE LET shift == IF i - Pow2(d) >= 0 THEN a[i - Pow2(d)] ELSE 0
         IN  ShiftPassDown([a EXCEPT ![i] = GateSelect(shift, a[i], bit)], d, bit, i + 1)

\* one pass of the inner loop "for i in 0..1000" for bit d, from index i on:
\* arr[i] = bit ? arr[i + 2^d] : arr[i], in place and in ascending order
RECURSIVE ShiftPass(_, _, _, _)
ShiftPass(a, d, bit, i) ==
    IF i = ArrLen THEN a
    ELSE LET shift == IF i + Pow2(d) < ArrLen THEN a[i + Pow2(d)] ELSE 0
         IN  ShiftPass([a EXCEPT ![i] = GateSelect(shift, a[i], bit)], d, bit, i + 1)

\* the mask the witness generator computes: i < input.end - input.start
HonestMask(s, e) == [i \in Idx |-> IF i < e - s THEN 1 ELSE 0]

\* the AND chain: mask[i] = mask[i] * mask[i - 1] for i = 1 .. len - 1
RECURSIVE AndChain(_, _)
AndChain(m, i) ==
    IF i = ArrLen THEN m
    ELSE AndChain([m EXCEPT ![i] = GateAnd(m[i], m[i - 1])], i + 1)

\* the constraints of the mask section: assert_bit on mask[1..], and
\* sum(mask) = end - start
MaskConstraintsHold(raw, chained, s, e) ==
    /\ \A i \in 1..(ArrLen - 1) : AssertBitHolds(raw[i])
    /\ GateSub(e, s) = GateSum(chained, ArrLen)

BarrelInit ==
    /\ arr0 \in [Idx -> 0..MaxVal]
    /\ arr = arr0
    /\ start \in 0..Min(ArrLen, Pow2(NumBits) - 1)
    /\ end \in start..ArrLen
    /\ mask = [i \in Idx |-> 0]
    /\ forged = FALSE
    /\ sat = NumToBitsHolds(start, NumBits)
    /\ bpc = 0
    /\ IdleExceptBarrel

\* the outer loop body for bit d = bpc
BarrelShiftBit ==
    /\ bpc < NumBits
    /\ arr' = ShiftPass(arr, bpc, NumToBits(start, NumBits)[bpc], 0)
    /\ bpc' = bpc + 1
    /\ UNCHANGED <<start, end, arr0, mask, forged, sat>>
    /\ UNCHANGED othersOfBarrel

\* lines 69-72 as the witness generator runs them
BarrelAssignMask ==
    /\ bpc = NumBits
    /\ mask' = HonestMask(start, end)
    /\ forged' = FALSE
    /\ bpc' = NumBits + 1
    /\ UNCHANGED <<arr, start, end, arr0, sat>>
    /\ UNCHANGED othersOfBarrel

\* the mask cells are plain witnesses: a prover may assign any values
BarrelForgeMask ==
    /\ bpc = NumBits
    /\ \E m \in [Idx -> 0..MaxWit] :
          /\ m # HonestMask(start, end)
          /\ mask' = m
    /\ forged' = TRUE
    /\ bpc' = NumBits + 1
    /\ UNCHANGED <<arr, start, end, arr0, sat>>
    /\ UNCHANGED othersOfBarrel

\* lines 73-84: the AND chain, the length check and the output product
BarrelMaskAndOutput ==
    /\ bpc = NumBits + 1
    /\ LET chained == AndChain(mask, 1)
       IN  /\ mask' = chained
           /\ sat' = (sat /\ MaskConstraintsHold(mask, chained, start, end))
           /\ arr' = [i \in Idx |-> GateMul(arr[i], chained[i])]
    /\ bpc' = NumBits + 2
    /\ UNCHANGED <<start, end, arr0, forged>>
    /\ UNCHANGED othersOfBarrel

BarrelDone == bpc = NumBits + 2

BarrelNext ==
    \/ BarrelShiftBit
    \/ BarrelAssignMask
    \/ BarrelForgeMask
    \/ BarrelMaskAndOutput

SpecBarrel == BarrelInit /\ [][BarrelNext]_vars

\* the subarray arr[start:end] padded with zeros
Subarray(a, s, e) == [i \in Idx |-> IF i < e - s THEN a[s + i] ELSE 0]

\* C1: when var_subarray has run with the mask its witness generator computes,
\* out[i] = arr[start + i] for every i < end - start and out[i] = 0 for every
\* other i.
C1_BarrelOutput ==
    (BarrelDone /\ ~forged) =>
        \A i \in Idx : arr[i] = (IF i < end - start THEN arr0[start + i] ELSE 0)

\* a finished honest run that moved an entry: out[0] comes from arr0[start]
C1_Witness ==
    /\ BarrelDone /\ ~forged
    /\ start >= 1 /\ end > start
    /\ arr0[0] = 0 /\ arr0[start] = 1 /\ arr[0] = 1

\* C2: every assignment of the mask witnesses that satisfies all emitted
\* constraints gives the output arr[start:end] padded with zeros.
C2_MaskDeterminesOutput ==
    (BarrelDone /\ sat) => arr = Subarray(arr0, start, end)

---------------------------------------------------------------------------
(* examples/variable_subarray_shift_v2.rs: variable_subarray_shift         *)

\* the input assertions of lines 43-46 (every array of the model has the
\* asserted length)
V2InputOk(s, e) ==
    /\ s < e
    /\ s < ArrLen
    /\ e < ArrLen

\* one round of the shift loop: every cell selects between itself and the
\* cell shift_per_bit further on, cyclically, from the array of the round before
ShiftRound(cur, i, bit) ==
    [idx \in Idx |->
        GateSelect(cur[(idx + Pow2(i)) % ArrLen], cur[idx], bit)]

ShiftV2Init ==
    /\ array \in [Idx -> 0..MaxVal]
    /\ vstart \in 0..ArrLen
    /\ vend \in 0..ArrLen
    /\ current_array = array
    /\ output = ZeroArray
    /\ vbit = 0
    /\ vpc = "check"
    /\ IdleExceptShiftV2

\* lines 31-58: parse, check the input, load the witnesses
V2CheckInput ==
    /\ vpc = "check"
    /\ vpc' = IF V2InputOk(vstart, vend) THEN "shift" ELSE "panicked"
    /\ UNCHANGED <<array, vstart, vend, current_array, output, vbit>>
    /\ UNCHANGED othersOfShiftV2

\* lines 72-88: round i = vbit of the shift loop
V2ShiftBit ==
    /\ vpc = "shift"
    /\ current_array' = ShiftRound(current_array, vbit, NumToBits(vstart, NumBits)[vbit])
    /\ vbit' = vbit + 1
    /\ vpc' = IF vbit + 1 = NumBits THEN "mask" ELSE "shift"
    /\ UNCHANGED <<array, vstart, vend, output>>
    /\ UNCHANGED othersOfShiftV2

\* lines 90-102: the masks and the output
V2MaskAndOutput ==
    /\ vpc = "mask"
    /\ LET sub_array_size == GateSub(vend, vstart)
           masks == [i \in Idx |-> RangeIsLessThan(FFrom(i), sub_array_size, NumBits)]
       IN  output' = [i \in Idx |-> GateMul(masks[i], current_array[i])]
    /\ vpc' = "done"
    /\ UNCHANGED <<array, vstart, vend, current_array, vbit>>
    /\ UNCHANGED othersOfShiftV2

ShiftV2Next ==
    \/ V2CheckInput
    \/ V2ShiftBit
    \/ V2MaskAndOutput

SpecShiftV2 == ShiftV2Init /\ [][ShiftV2Next]_vars

\* C3: for all start <= end <= len the function completes and its output is
\* arr[start:end] in the first end - start entries and 0 in all others.
C3_V2CompletesWithSubarray ==
    (vpc \in {"done", "panicked"} /\ vstart <= vend) =>
        (vpc = "done" /\ output = Subarray(array, vstart, vend))

---------------------------------------------------------------------------
(* examples/cario.rs: the toy VM                                           *)

\* width of an offset field of the instruction word (16 in the source)
OffBits == 1

\* the instruction word: three offsets, two register bits, op1_src (3 bits),
\* res_logic (2), pc_update (3), ap_update (2), op_code (3): 63 bits in the source
InstrBits == 3 * OffBits + 15

\* gate.inner_product of the first n entries of two sequences
RECURSIVE InnerProduct(_, _, _)
InnerProduct(a, b, n) ==
    IF n = 0 THEN 0 ELSE FAdd(InnerProduct(a, b, n - 1), FMul(a[n], b[n]))

\* gate.select_from_idx(cells, idx): cells[idx], and 0 when idx is no index
\* of the list (the inner product of the cells with the indicator of idx)
SelectFromIdx(cells, idx) ==
    IF idx < Len(cells) THEN cells[idx + 1] ELSE 0

bit_slice(bits, s, e) ==
    InnerProduct([i \in 1..(e - s) |-> bits[s + i - 1]],
                 [i \in 1..(e - s) |-> Pow2(i - 1)], e - s)

\* recenter a value within [0, 2^16) to [-2^15, 2^15)
bias(input) == GateSub(input, FFrom(Pow2(OffBits - 1)))

\* decode_instruction reading op1_src from two bits only
decode_instruction_short(instruction) ==
    LET instruction_bits == NumToBits(instruction, InstrBits)
        w == OffBits
    IN  [off_dst   |-> bias(bit_slice(instruction_bits, 0, w)),
         off_op0   |-> bias(bit_slice(instruction_bits, w, 2 * w)),
         off_op1   |-> bias(bit_slice(instruction_bits, 2 * w, 3 * w)),
         dst_reg   |-> instruction_bits[3 * w],
         op0_reg   |-> instruction_bits[3 * w + 1],
         op1_src   |-> bit_slice(instruction_bits, 3 * w + 2, 3 * w + 4),
         res_logic |-> bit_slice(instruction_bits, 3 * w + 5, 3 * w + 7),
         pc_update |-> bit_slice(instruction_bits, 3 * w + 7, 3 * w + 10),
         ap_update |-> bit_slice(instruction_bits, 3 * w + 10, 3 * w + 12),
         op_code   |-> bit_slice(instruction_bits, 3 * w + 12, 3 * w + 15)]

decode_instruction(instruction) ==
    LET instruction_bits == NumToBits(instruction, InstrBits)
        w == OffBits
    IN  [off_dst   |-> bias(bit_slice(instruction_bits, 0, w)),
         off_op0   |-> bias(bit_slice(instruction_bits, w, 2 * w)),
         off_op1   |-> bias(bit_slice(instruction_bits, 2 * w, 3 * w)),
         dst_reg   |-> instruction_bits[3 * w],
         op0_reg   |-> instruction_bits[3 * w + 1],
         op1_src   |-> bit_slice(instruction_bits, 3 * w + 2, 3 * w + 5),
         res_logic |-> bit_slice(instruction_bits, 3 * w + 5, 3 * w + 7),
         pc_update |-> bit_slice(instruction_bits, 3 * w + 7, 3 * w + 10),
         ap_update |-> bit_slice(instruction_bits, 3 * w + 10, 3 * w + 12),
         op_code   |-> bit_slice(instruction_bits, 3 * w + 12, 3 * w + 15)]

read_memory(mem, address) == SelectFromIdx(mem, address)

\* compute_op0 with the two reads exchanged in the select
compute_op0_swapped(mem, op0_reg, ap_, fp_, off_op0) ==
    LET ap_plus_off_op0 == GateAdd(ap_, off_op0)
        fp_plus_off_op0 == GateAdd(fp_, off_op0)
        op0_0 == read_memory(mem, ap_plus_off_op0)
        op_0_1 == read_memory(mem, fp_plus_off_op0)
    IN  GateSelect(op0_0, op_0_1, op0_reg)

compute_op0(mem, op0_reg, ap_, fp_, off_op0) ==
    LET ap_plus_off_op0 == GateAdd(ap_, off_op0)
        fp_plus_off_op0 == GateAdd(fp_, off_op0)
        op0_0 == read_memory(mem, ap_plus_off_op0)
        op_0_1 == read_memory(mem, fp_plus_off_op0)
    IN  GateSelect(op_0_1, op0_0, op0_reg)

\* the assertions of compute_op1_and_instruction_size without op1_src != 3
Op1AssertsPass_upto4(op1_src) == op1_src <= 4

\* the Rust assertions of compute_op1_and_instruction_size
Op1AssertsPass(op1_src) == op1_src # 3 /\ op1_src <= 4

\* w is the record of the values in the cells loaded as Witness(F::zero())
compute_op1_and_instruction_size(mem, op1_src, op0, off_op1, fp_, ap_, pc_, w) ==
    LET op0_off_op1 == GateAdd(op0, off_op1)
        pc_off_op1 == GateAdd(pc_, off_op1)
        fp_off_op1 == GateAdd(fp_, off_op1)
        ap_off_op1 == GateAdd(ap_, off_op1)
        op1_values == <<read_memory(mem, op0_off_op1),
                        read_memory(mem, pc_off_op1),
                        read_memory(mem, fp_off_op1),
                        w.op1,
                        read_memory(mem, ap_off_op1)>>
        instruction_values == <<1, 2, 1, w.size, 1>>
    IN  [op1 |-> SelectFromIdx(op1_values, op1_src),
         instruction_size |-> SelectFromIdx(instruction_values, op1_src)]

ResAssertsPass(pc_update, res_logic) ==
    pc_update # 3 /\ pc_update <= 4 /\ res_logic <= 2

compute_res(pc_update, res_logic, op1, op0, w) ==
    LET op1_op0 == GateAdd(op1, op0)
        op1_mul_op0 == GateMul(op1, op0)
        case_0_1_2_value == SelectFromIdx(<<op1, op1_op0, op1_mul_op0>>, res_logic)
        res_values == <<case_0_1_2_value, case_0_1_2_value, case_0_1_2_value,
                        w.res3, w.res4>>
    IN  SelectFromIdx(res_values, pc_update)

compute_dst(mem, ap_, fp_, off_dst, dst_reg) ==
    LET is_dst_reg_zero == GateIsZero(dst_reg)
        var_a == read_memory(mem, GateAdd(ap_, off_dst))
        var_b == read_memory(mem, GateAdd(fp_, off_dst))
    IN  GateSelect(var_a, var_b, is_dst_reg_zero)

NextPcAssertsPass(pc_update) == pc_update # 3 /\ pc_update <= 4

\* compute_next_pc with the entries for pc_update 1 and 2 exchanged
compute_next_pc_swapped(pc_, instruction_size, res, dst, op1, pc_update, w) ==
    LET var_a == GateAdd(pc_, instruction_size)
        var_b == GateAdd(pc_, op1)
        case_4_value == GateSelect(var_a, var_b, GateIsZero(dst))
        next_pc_values == <<GateAdd(pc_, instruction_size), GateAdd(pc_, res), res,
                            w.next_pc, case_4_value>>
    IN  SelectFromIdx(next_pc_values, pc_update)

compute_next_pc(pc_, instruction_size, res, dst, op1, pc_update, w) ==
    LET var_a == GateAdd(pc_, instruction_size)
        var_b == GateAdd(pc_, op1)
        sel == GateIsZero(dst)
        case_4_value == GateSelect(var_a, var_b, sel)
        next_pc_values == <<GateAdd(pc_, instruction_size), res, GateAdd(pc_, res),
                            w.next_pc, case_4_value>>
    IN  SelectFromIdx(next_pc_values, pc_update)

NextApFpAssertsPass(ap_update, op_code) ==
    ap_update <= 2 /\ op_code <= 4 /\ op_code # 3

\* compute_next_ap_fp without the assertion on value_to_check_2
compute_next_ap_fp_first_only(op_code, pc_, instruction_size, res, dst, op0, fp_, ap_, ap_update, w) ==
    LET condition_1 == GateIsEqual(op_code, 1)
        sub_b == GateAdd(pc_, instruction_size)
        mul_b == GateSub(op0, sub_b)
        value_to_check_1 == GateMul(condition_1, mul_b)
        mul_b_2 == GateSub(dst, fp_)
        value_to_check_2 == GateMul(condition_1, mul_b_2)
        condition_4 == GateIsEqual(op_code, 4)
        mul_b_3 == GateSub(res, dst)
        value_to_check_3 == GateMul(condition_4, mul_b_3)
        next_ap_value_1 == GateAdd(ap_, res)
        next_ap_value_2 == GateAdd(ap_, 1)
        next_ap_swtich_by_ap_update_0_2_4 ==
            SelectFromIdx(<<ap_, next_ap_value_1, next_ap_value_2>>, ap_update)
        var_a == GateAdd(ap_, 2)
        sel == GateIsZero(ap_update)
        next_ap_swtich_by_ap_update_1 == GateSelect(var_a, w.ap_sel, sel)
        next_ap_values == <<next_ap_swtich_by_ap_update_0_2_4,
                            next_ap_swtich_by_ap_update_1,
                            next_ap_swtich_by_ap_update_0_2_4,
                            w.next_ap,
                            next_ap_swtich_by_ap_update_0_2_4>>
        next_fp_values == <<fp_, GateAdd(ap_, 2), dst, w.next_fp, fp_>>
    IN  [next_ap |-> SelectFromIdx(next_ap_values, op_code),
         next_fp |-> SelectFromIdx(next_fp_values, op_code),
         \* the three assert_is_const constraints
         holds   |-> /\ value_to_check_1 = 0
                     /\ value_to_check_3 = 0]

compute_next_ap_fp(op_code, pc_, instruction_size, res, dst, op0, fp_, ap_, ap_update, w) ==
    LET condition_1 == GateIsEqual(op_code, 1)
        sub_b == GateAdd(pc_, instruction_size)
        mul_b == GateSub(op0, sub_b)
        value_to_check_1 == GateMul(condition_1, mul_b)
        mul_b_2 == GateSub(dst, fp_)
        value_to_check_2 == GateMul(condition_1, mul_b_2)
        condition_4 == GateIsEqual(op_code, 4)
        mul_b_3 == GateSub(res, dst)
        value_to_check_3 == GateMul(condition_4, mul_b_3)
        next_ap_value_1 == GateAdd(ap_, res)
        next_ap_value_2 == GateAdd(ap_, 1)
        next_ap_swtich_by_ap_update_0_2_4 ==
            SelectFromIdx(<<ap_, next_ap_value_1, next_ap_value_2>>, ap_update)
        var_a == GateAdd(ap_, 2)
        sel == GateIsZero(ap_update)
        next_ap_swtich_by_ap_update_1 == GateSelect(var_a, w.ap_sel, sel)
        next_ap_values == <<next_ap_swtich_by_ap_update_0_2_4,
                            next_ap_swtich_by_ap_update_1,
                            next_ap_swtich_by_ap_update_0_2_4,
                            w.next_ap,
                            next_ap_swtich_by_ap_update_0_2_4>>
        next_fp_values == <<fp_, GateAdd(ap_, 2), dst, w.next_fp, fp_>>
    IN  [next_ap |-> SelectFromIdx(next_ap_values, op_code),
         next_fp |-> SelectFromIdx(next_fp_values, op_code),
         \* the three assert_is_const constraints
         holds   |-> /\ value_to_check_1 = 0
                     /\ value_to_check_2 = 0
                     /\ value_to_check_3 = 0]

\* [returns, sat, next_pc, next_ap, next_fp]: returns is FALSE when a Rust
\* assertion aborts the call; sat tells whether the emitted constraints hold
state_transition(mem, pc_, ap_, fp_, w) ==
    LET instruction == SelectFromIdx(mem, pc_)
        d == decode_instruction(instruction)
        op0 == compute_op0(mem, d.op0_reg, ap_, fp_, d.off_op0)
        o1 == compute_op1_and_instruction_size(mem, d.op1_src, op0, d.off_op1,
                                               fp_, ap_, pc_, w)
        res == compute_res(d.pc_update, d.res_logic, o1.op1, op0, w)
        dst == compute_dst(mem, ap_, fp_, d.off_dst, d.dst_reg)
        next_pc == compute_next_pc(pc_, o1.instruction_size, res, dst, o1.op1,
                                   d.pc_update, w)
        n == compute_next_ap_fp(d.op_code, pc_, o1.instruction_size, res, dst, op0,
                                fp_, ap_, d.ap_update, w)
    IN  [returns |-> /\ Op1AssertsPass(d.op1_src)
                     /\ ResAssertsPass(d.pc_update, d.res_logic)
                     /\ NextPcAssertsPass(d.pc_update)
                     /\ NextApFpAssertsPass(d.ap_update, d.op_code),
         sat     |-> NumToBitsHolds(instruction, InstrBits) /\ n.holds,
         next_pc |-> next_pc,
         next_ap |-> n.next_ap,
         next_fp |-> n.next_fp]

\* The gate calls of one state_transition, in the order the source makes them,
\* each as <<kind, length of its list argument>>.
Op(kind) == <<kind, 0>>

read_memory_ops(mem) == <<<<"select_from_idx", Len(mem)>>>>

bit_slice_ops(s, e) == <<<<"inner_product", e - s>>>>

decode_instruction_ops ==
    LET w == OffBits
    IN  <<<<"num_to_bits", InstrBits>>>>
        \o bit_slice_ops(0, w) \o <<Op("sub")>>
        \o bit_slice_ops(w, 2 * w) \o <<Op("sub")>>
        \o bit_slice_ops(2 * w, 3 * w) \o <<Op("sub")>>
        \o bit_slice_ops(3 * w + 2, 3 * w + 5)
        \o bit_slice_ops(3 * w + 5, 3 * w + 7)
        \o bit_slice_ops(3 * w + 7, 3 * w + 10)
        \o bit_slice_ops(3 * w + 10, 3 * w + 12)
        \o bit_slice_ops(3 * w + 12, 3 * w + 15)

compute_op0_ops(mem) ==
    <<Op("add"), Op("add")>> \o read_memory_ops(mem) \o read_memory_ops(mem)
    \o <<Op("select")>>

compute_op1_and_instruction_size_ops(mem) ==
    <<Op("add"), Op("add"), Op("add"), Op("add")>>
    \o read_memory_ops(mem) \o read_memory_ops(mem)
    \o read_memory_ops(mem) \o read_memory_ops(mem)
    \o <<<<"select_from_idx", 5>>, <<"select_from_idx", 5>>>>

compute_res_ops ==
    <<Op("add"), Op("mul"), <<"select_from_idx", 3>>, <<"select_from_idx", 5>>>>

compute_dst_ops(mem) ==
    <<Op("is_zero"), Op("add")>> \o read_memory_ops(mem)
    \o <<Op("add")>> \o read_memory_ops(mem) \o <<Op("select")>>

compute_next_pc_ops ==
    <<Op("add"), Op("add"), Op("is_zero"), Op("select"), Op("add"), Op("add"),
      <<"select_from_idx", 5>>>>

compute_next_ap_fp_ops ==
    <<Op("is_equal"), Op("add"), Op("sub"), Op("mul"), Op("assert_is_const"),
      Op("sub"), Op("mul"), Op("assert_is_const"),
      Op("is_equal"), Op("sub"), Op("mul"), Op("assert_is_const"),
      Op("add"), Op("add"), <<"select_from_idx", 3>>,
      Op("add"), Op("is_zero"), Op("select"), <<"select_from_idx", 5>>,
      Op("add"), <<"select_from_idx", 5>>>>

\* state_transition_ops that reads the destination cells only for the
\* register the instruction names
state_transition_ops_lazy(mem, pc_, ap_, fp_) ==
    LET d == decode_instruction(SelectFromIdx(mem, pc_))
    IN  read_memory_ops(mem)
        \o decode_instruction_ops
        \o compute_op0_ops(mem)
        \o compute_op1_and_instruction_size_ops(mem)
        \o compute_res_ops
        \o (IF d.dst_reg = 0
            THEN <<Op("is_zero"), Op("add")>> \o read_memory_ops(mem)
            ELSE compute_dst_ops(mem))
        \o compute_next_pc_ops
        \o compute_next_ap_fp_ops

\* no call of state_transition is guarded by a value of the trace
state_transition_ops(mem, pc_, ap_, fp_) ==
    read_memory_ops(mem)
    \o decode_instruction_ops
    \o compute_op0_ops(mem)
    \o compute_op1_and_instruction_size_ops(mem)
    \o compute_res_ops
    \o compute_dst_ops(mem)
    \o compute_next_pc_ops
    \o compute_next_ap_fp_ops

\* cells a gate call appends to the Context: a function of the kind of the
\* call and of the length of its list, never of a value
CellsOf(op) ==
    LET n == op[2]
    IN  CASE op[1] \in {"add", "sub", "mul"} -> 4
          [] op[1] \in {"select", "is_zero"} -> 8
          [] op[1] = "is_equal" -> 12
          [] op[1] = "assert_is_const" -> 0
          [] op[1] = "inner_product" -> 1 + 3 * n
          [] op[1] = "num_to_bits" -> 1 + 3 * n + 4 * n
          [] op[1] = "select_from_idx" -> 8 + 12 * (n - 1) + 1 + 3 * n

RECURSIVE CellsOfAll(_, _)
CellsOfAll(ops, n) == IF n = 0 THEN 0 ELSE CellsOfAll(ops, n - 1) + CellsOf(ops[n])

---------------------------------------------------------------------------
(* vm: the driver of the toy VM                                            *)

\* number of memory cells of the input (the last one holds the instruction)
MemLen == 4
\* num_clock_cycles
NumCycles == 10

Allowed4 == {0, 1, 2, 4}
Allowed3 == {0, 1, 2}
\* the offsets drawn: the two nearest to 0
OffRange == {0 - 1, 0}

\* the instruction word with the given fields
Encode(f) ==
    LET w == OffBits
        b == Pow2(OffBits - 1)
    IN  (f.off_dst + b) + Pow2(w) * (f.off_op0 + b) + Pow2(2 * w) * (f.off_op1 + b)
        + Pow2(3 * w) * f.dst_reg + Pow2(3 * w + 1) * f.op0_reg
        + Pow2(3 * w + 2) * f.op1_src + Pow2(3 * w + 5) * f.res_logic
        + Pow2(3 * w + 7) * f.pc_update + Pow2(3 * w + 10) * f.ap_update
        + Pow2(3 * w + 12) * f.op_code

DecodableFields ==
    [off_dst : OffRange, off_op0 : OffRange, off_op1 : OffRange,
     dst_reg : {0, 1}, op0_reg : {0, 1},
     op1_src : Allowed4, res_logic : Allowed3, pc_update : Allowed4,
     ap_update : Allowed3, op_code : Allowed4]

\* the free witness cells of state_transition, all holding v
Wit(v) ==
    [op1 |-> v, size |-> v, res3 |-> v, res4 |-> v, next_pc |-> v,
     ap_sel |-> v, next_ap |-> v, next_fp |-> v]

\* the data cell at address i: a rotation of 0 .. MemLen - 2, so that a cell
\* holds 0 and no cell but one holds its own address
DataCell(i) == (i + MemLen - 2) % (MemLen - 1)

\* a memory whose last cell holds the instruction with fields f
ProgramMemory(f) ==
    [i \in 1..MemLen |-> IF i < MemLen THEN FFrom(DataCell(i - 1)) ELSE FFrom(Encode(f))]

\* lines 383-388 of vm: the registers and the memory as loaded witnesses,
\* the program counter on the instruction
VmLoaded(f, n) ==
    /\ memory = ProgramMemory(f)
    /\ pc = MemLen - 1
    /\ ap = 1
    /\ fp = 2
    /\ prev = <<0, 0, 0>>
    /\ wit = 0
    /\ vmsat = TRUE
    /\ cycle = 0
    /\ num_clock_cycles = n
    /\ ctx_ops = <<>>
    /\ ctx_cells = 3 + MemLen
    /\ vmpc = "run"
    /\ IdleExceptVm

\* state_transition examined as a function: one call, on every decodable
\* instruction of the model
TransitionInit == \E f \in DecodableFields : VmLoaded(f, 1)

\* vm with its num_clock_cycles calls, on every decodable instruction whose
\* offsets are 0
VmInit ==
    \E f \in DecodableFields :
        /\ f.off_dst = 0 /\ f.off_op0 = 0 /\ f.off_op1 = 0
        /\ VmLoaded(f, NumCycles)

\* one iteration of the loop of vm with the witness v in the free cells
VmCall(v) ==
    LET t == state_transition(memory, pc, ap, fp, Wit(v))
        ops == state_transition_ops(memory, pc, ap, fp)
    IN  IF t.returns
        THEN /\ pc' = t.next_pc
             /\ ap' = t.next_ap
             /\ fp' = t.next_fp
             /\ prev' = <<pc, ap, fp>>
             /\ wit' = v
             /\ vmsat' = (vmsat /\ t.sat)
             /\ cycle' = cycle + 1
             /\ ctx_ops' = ops
             /\ ctx_cells' = ctx_cells + CellsOfAll(ops, Len(ops))
             /\ vmpc' = IF cycle + 1 = num_clock_cycles THEN "halt" ELSE "run"
             /\ UNCHANGED <<memory, num_clock_cycles>>
        ELSE /\ vmpc' = "panicked"
             /\ UNCHANGED <<memory, pc, ap, fp, prev, wit, vmsat, cycle,
                            num_clock_cycles, ctx_ops, ctx_cells>>

\* the witness generator: every Witness(F::zero()) cell holds 0
VmStep ==
    /\ vmpc = "run"
    /\ VmCall(0)
    /\ UNCHANGED othersOfVm

\* a prover that assigns another value to the cells no constraint determines
VmStepForged ==
    /\ vmpc = "run"
    /\ \E v \in 1..MaxWit : VmCall(v)
    /\ UNCHANGED othersOfVm

TransitionNext == VmStep \/ VmStepForged

\* one call of state_transition, by the witness generator or by any prover
SpecTransition == TransitionInit /\ [][TransitionNext]_vars

VmNext == VmStep

\* the run of vm
SpecVM == VmInit /\ [][VmNext]_vars

---------------------------------------------------------------------------
(* the toy VM against a reference interpreter                              *)

\* the n-bit field of the instruction word that starts at bit lo
RefField(instr, lo, n) == (instr \div Pow2(lo)) % Pow2(n)

\* the k-th offset of the instruction word, as a signed integer
RefOff(instr, k) == RefField(instr, k * OffBits, OffBits) - Pow2(OffBits - 1)

RefFlags(instr) ==
    LET b == 3 * OffBits
    IN  [dst_reg   |-> RefField(instr, b, 1),
         op0_reg   |-> RefField(instr, b + 1, 1),
         op1_src   |-> RefField(instr, b + 2, 3),
         res_logic |-> RefField(instr, b + 5, 2),
         pc_update |-> RefField(instr, b + 7, 3),
         ap_update |-> RefField(instr, b + 10, 2),
         op_code   |-> RefField(instr, b + 12, 3)]

\* the addresses the instruction at mem[pc_] reads: dst, op0, and op1 once
\* op0 is known
RefDstAddr(instr, ap_, fp_) ==
    (IF RefFlags(instr).dst_reg = 0 THEN ap_ ELSE fp_) + RefOff(instr, 0)

RefOp0Addr(instr, ap_, fp_) ==
    (IF RefFlags(instr).op0_reg = 0 THEN ap_ ELSE fp_) + RefOff(instr, 1)

RefOp1Addr(instr, op0, pc_, ap_, fp_) ==
    LET src == RefFlags(instr).op1_src
    IN  (CASE src = 0 -> op0 [] src = 1 -> pc_ [] src = 2 -> fp_ [] src = 4 -> ap_)
        + RefOff(instr, 2)

RefInside(mem, a) == a >= 0 /\ a < Len(mem)

\* the instruction decodes to allowed fields and every cell it addresses is
\* inside the memory
RefDefined(mem, pc_, ap_, fp_) ==
    /\ RefInside(mem, pc_)
    /\ LET instr == mem[pc_ + 1]
           f == RefFlags(instr)
       IN  /\ instr < Pow2(InstrBits)
           /\ f.op1_src \in {0, 1, 2, 4}
           /\ f.pc_update \in {0, 1, 2, 4}
           /\ f.op_code \in {0, 1, 2, 4}
           /\ f.res_logic \in {0, 1, 2}
           /\ f.ap_update \in {0, 1, 2}
           /\ RefInside(mem, RefDstAddr(instr, ap_, fp_))
           /\ RefInside(mem, RefOp0Addr(instr, ap_, fp_))
           /\ RefInside(mem, RefOp1Addr(instr, mem[RefOp0Addr(instr, ap_, fp_) + 1],
                                        pc_, ap_, fp_))

\* a call (op_code 1) names the next ap only with ap_update 0
RefNamesNextAp(mem, pc_) ==
    LET f == RefFlags(mem[pc_ + 1])
    IN  ~(f.op_code = 1 /\ f.ap_update # 0)

\* the next registers; next_ap is -1, no field element, where no value is
\* named; the res a conditional jump (pc_update 4) does not compute is 0
RefStep(mem, pc_, ap_, fp_) ==
    LET instr == mem[pc_ + 1]
        f == RefFlags(instr)
        dst == mem[RefDstAddr(instr, ap_, fp_) + 1]
        op0 == mem[RefOp0Addr(instr, ap_, fp_) + 1]
        op1 == mem[RefOp1Addr(instr, op0, pc_, ap_, fp_) + 1]
        size == IF f.op1_src = 1 THEN 2 ELSE 1
        res == CASE f.pc_update = 4 -> 0
                 [] f.pc_update # 4 /\ f.res_logic = 0 -> op1
                 [] f.pc_update # 4 /\ f.res_logic = 1 -> (op1 + op0) % FieldP
                 [] f.pc_update # 4 /\ f.res_logic = 2 -> FMul(op1, op0)
        by_ap_update == CASE f.ap_update = 0 -> ap_
                          [] f.ap_update = 1 -> (ap_ + res) % FieldP
                          [] f.ap_update = 2 -> (ap_ + 1) % FieldP
    IN  [next_pc |-> CASE f.pc_update = 0 -> (pc_ + size) % FieldP
                       [] f.pc_update = 1 -> res
                       [] f.pc_update = 2 -> (pc_ + res) % FieldP
                       [] f.pc_update = 4 -> IF dst = 0 THEN (pc_ + size) % FieldP
                                             ELSE (pc_ + op1) % FieldP,
         next_ap |-> CASE f.op_code \in {0, 2, 4} -> by_ap_update
                       [] f.op_code = 1 /\ f.ap_update = 0 -> (ap_ + 2) % FieldP
                       [] f.op_code = 1 /\ f.ap_update # 0 -> 0 - 1,
         next_fp |-> CASE f.op_code = 0 -> fp_
                       [] f.op_code = 1 -> (ap_ + 2) % FieldP
                       [] f.op_code = 2 -> dst
                       [] f.op_code = 4 -> fp_]

\* the fields of the instruction the call just made has executed
Executed == RefFlags(memory[prev[1] + 1])

\* C4: for every (memory, pc, ap, fp) whose instruction decodes to allowed
\* fields and whose addressed cells are inside memory, the registers
\* state_transition computes are those of the reference interpreter.
C4_TransitionMatchesReference ==
    (vmpc = "halt" /\ wit = 0 /\ RefDefined(memory, prev[1], prev[2], prev[3])) =>
        LET r == RefStep(memory, prev[1], prev[2], prev[3])
        IN  /\ pc = r.next_pc
            /\ (RefNamesNextAp(memory, prev[1]) => ap = r.next_ap)
            /\ fp = r.next_fp

\* a relative jump by a product, with ap advanced by res and fp set to dst
C4_Witness ==
    /\ vmpc = "halt" /\ wit = 0
    /\ RefDefined(memory, prev[1], prev[2], prev[3])
    /\ Executed.pc_update = 2 /\ Executed.res_logic = 2
    /\ Executed.ap_update = 1 /\ Executed.op_code = 2
    /\ pc # prev[1] /\ ap # prev[2] /\ fp # prev[3]

\* C5: any two assignments of the free witnesses that satisfy all constraints
\* of state_transition give the same (next_pc, next_ap, next_fp): an
\* assignment that satisfies them gives the registers of the witness
\* generator's assignment whenever that one satisfies them too.
C5_TransitionDetermined ==
    LET t == state_transition(memory, prev[1], prev[2], prev[3], Wit(0))
    IN  (vmpc = "halt" /\ vmsat /\ t.sat) =>
            <<pc, ap, fp>> = <<t.next_pc, t.next_ap, t.next_fp>>

\* the gate calls of a call on a memory of the same length that holds only
\* zeros, with all registers 0
FixedCallOps == state_transition_ops([i \in 1..Len(memory) |-> 0], 0, 0, 0)

\* C6: every call of state_transition that returns appends the same sequence
\* of constraint kinds and the same number of cells, whatever instruction and
\* registers it is given, and the trace grows by that amount in each cycle
\* of vm.
C6_SameConstraintsEveryCycle ==
    (vmpc \in {"run", "halt"} /\ cycle >= 1) =>
        /\ ctx_ops = FixedCallOps
        /\ ctx_cells = 3 + Len(memory) + cycle * CellsOfAll(FixedCallOps, Len(FixedCallOps))

\* the last of the cycles of vm, after a jump, on an instruction that reads
\* dst through fp
C6_Witness ==
    /\ vmpc = "halt" /\ cycle = NumCycles
    /\ RefFlags(memory[Len(memory)]).dst_reg = 1
    /\ pc # prev[1] + 1
    /\ ctx_ops = FixedCallOps

---------------------------------------------------------------------------
(* Range chip primitives                                                   *)

\* range.range_check(a, bits): satisfiable exactly when a < 2^bits
RangeCheckHolds(a, bits) == a < Pow2(bits)

\* range.check_less_than_safe(a, b): satisfiable exactly when a < b
CheckLessThanSafeHolds(a, b) == a < b

\* range.div_mod(a, b, bits): the witnesses a / b and a % b of the native
\* integer division, with a = div * b + rem, div range-checked to the bits
\* passed and rem below b
DivMod(a, b, bits) ==
    LET div == a \div b
        rem == a % b
    IN  [div |-> div,
         rem |-> rem,
         holds |-> /\ GateMulAdd(div, FFrom(b), rem) = a
                   /\ RangeCheckHolds(div, bits)
                   /\ CheckLessThanSafeHolds(rem, b)]

\* value().get_lower_32(): the integer of the 32 low bits of a field element
RECURSIVE LowerBits(_, _)
LowerBits(v, n) ==
    IF n = 0 \/ v = 0 THEN 0 ELSE (v % 2) + 2 * LowerBits(v \div 2, n - 1)

get_lower_32(v) == LowerBits(v, 32)

\* the field elements the examples on one field element are run on: the
\* integers up to MaxX and their negatives
MaxX == 255

FieldSample == (0..MaxX) \cup {FieldP - k : k \in 1..MaxX}

---------------------------------------------------------------------------
(* examples/int_div.rs                                                     *)

\* "x, which is guaranteed to be at most 16-bits"
XBits == 16

IntDivInit ==
    /\ div_x \in 0..(Pow2(XBits) - 1)
    /\ div_out \in {div_x \div 32, 0}
    /\ div_quot = 0
    /\ div_rem = 0
    /\ div_sat = TRUE
    /\ div_public = <<>>
    /\ div_pc = "call"
    /\ IdleExceptIntDiv

\* int_div_32 of int_div.rs
IntDiv32 ==
    /\ div_pc = "call"
    /\ LET x_u32 == get_lower_32(div_x)
           quot == FFrom(x_u32 \div 32)
           rem == FFrom(x_u32 % 32)
           x_check == GateMulAdd(quot, FFrom(32), rem)
       IN  /\ div_quot' = quot
           /\ div_rem' = rem
           /\ div_sat' = /\ RangeCheckHolds(quot, 5)
                         /\ RangeCheckHolds(rem, 5)
                         /\ div_x = x_check
           /\ div_public' = <<div_x, quot>>
           /\ div_pc' = IF quot = FFrom(div_out) THEN "done" ELSE "panicked"
    /\ UNCHANGED <<div_x, div_out>>
    /\ UNCHANGED othersOfIntDiv

IntDivNext == IntDiv32

SpecIntDiv == IntDivInit /\ [][IntDivNext]_vars

\* C7: for every x below 2^16 with input.out = floor(x / 32), the witnesses
\* quot = floor(x / 32) and rem = x mod 32 satisfy every emitted constraint
\* and the public outputs are [x, floor(x / 32)].
C7_IntDivWitnessesSatisfy ==
    (div_pc # "call" /\ div_out = div_x \div 32) =>
        /\ div_pc = "done"
        /\ div_quot = div_x \div 32
        /\ div_rem = div_x % 32
        /\ div_sat
        /\ div_public = <<div_x, div_x \div 32>>

---------------------------------------------------------------------------
(* examples/int_div_underconstrained.rs                                    *)

\* the quotient of the integer division of the commented-out lines 50-53
UnderQuotFloor(x) == FFrom(x \div 32)

\* line 67: quot = x * 32^(-1) in the field
UnderQuot(x) == FMul(x, FInv(FFrom(32)))

UnderInit ==
    /\ div_x \in FieldSample
    /\ div_out = 0
    /\ div_quot = 0
    /\ div_rem = 0
    /\ div_sat = TRUE
    /\ div_public = <<>>
    /\ div_pc = "call"
    /\ IdleExceptIntDiv

\* int_div_32 of int_div_underconstrained.rs
UnderIntDiv32 ==
    /\ div_pc = "call"
    /\ LET rem == 0
           quot == UnderQuot(div_x)
           x_check == GateMulAdd(quot, FFrom(32), rem)
       IN  /\ div_quot' = quot
           /\ div_rem' = rem
           /\ div_sat' = /\ CheckLessThanSafeHolds(rem, 32)
                         /\ div_x = x_check
           /\ div_public' = <<div_x, quot>>
           /\ div_pc' = "done"
    /\ UNCHANGED <<div_x, div_out>>
    /\ UNCHANGED othersOfIntDiv

UnderNext == UnderIntDiv32

SpecIntDivUnder == UnderInit /\ [][UnderNext]_vars

\* C8: for every field element x the witness quot = x * 32^(-1), rem = 0
\* satisfies all constraints of the underconstrained int_div_32, and for
\* every x not divisible by 32 the public quot differs from floor(x / 32).
C8_UnderAcceptsWrappedQuotient ==
    (div_pc = "done") =>
        /\ div_sat
        /\ div_rem = 0
        /\ (div_x % 32 # 0 => div_public[2] # div_x \div 32)

\* x = 33: the accepted quot is a field element far above floor(33 / 32) = 1
C8_Witness ==
    /\ div_pc = "done"
    /\ div_x = 33
    /\ div_sat
    /\ div_public[1] = 33
    /\ div_public[2] > Pow2(XBits)

---------------------------------------------------------------------------
(* examples/poly_reduce.rs                                                 *)

DEGREE == 3
MODULUS == 11
\* the largest coefficient (poly: Vec<u8>)
MaxCoef == 255

\* the reduction of a polynomial, coefficient by coefficient
Reduced(p) == [i \in 1..Len(p) |-> p[i] % MODULUS]

\* polynomials of DEGREE + 1 coefficients: every first coefficient, the
\* others 0, just above the modulus, or the largest
PolyInit ==
    /\ poly \in {<<c1, c2, c3, c4>> :
                    c1 \in 0..MaxCoef, c2 \in {0, MaxCoef},
                    c3 \in {0, MODULUS + 1}, c4 \in {0, MaxCoef}}
    /\ poly_out \in {Reduced(poly), [i \in 1..Len(poly) |-> 0]}
    /\ rem_assigned = <<>>
    /\ poly_sat = TRUE
    /\ poly_public = <<>>
    /\ poly_pc = IF Len(poly) - 1 = DEGREE THEN "div_mod" ELSE "panicked"
    /\ IdleExceptPoly

\* lines 57-61: one div_mod of the map over the coefficients taken
PolyDivMod ==
    /\ poly_pc = "div_mod"
    /\ LET i == Len(rem_assigned) + 1
           taken == Min(2 * DEGREE - 1, Len(poly))
           r == DivMod(FFrom(poly[i]), MODULUS, 4)
       IN  /\ rem_assigned' = Append(rem_assigned, r.rem)
           /\ poly_sat' = (poly_sat /\ r.holds)
           /\ poly_pc' = IF i = taken THEN "publish" ELSE "div_mod"
    /\ UNCHANGED <<poly, poly_out, poly_public>>
    /\ UNCHANGED othersOfPoly

\* lines 64-73: the public outputs and the comparison with input.out
PolyPublish ==
    /\ poly_pc = "publish"
    /\ poly_public' = [i \in 1..(DEGREE - 1) |-> rem_assigned[i]]
    /\ poly_pc' = IF \A i \in 1..Min(Len(rem_assigned), Len(poly_out)) :
                        get_lower_32(rem_assigned[i]) = poly_out[i]
                  THEN "done" ELSE "panicked"
    /\ UNCHANGED <<poly, poly_out, rem_assigned, poly_sat>>
    /\ UNCHANGED othersOfPoly

PolyNext == PolyDivMod \/ PolyPublish

SpecPoly == PolyInit /\ [][PolyNext]_vars

\* C9: for every polynomial of DEGREE + 1 coefficients in 0..=255, the
\* witnesses of div_mod(coefficient, 11, 4) satisfy the emitted constraints,
\* the range check of the quotient included, and the remainders are the
\* polynomial reduced mod 11.
C9_ReducePolySatisfied ==
    (poly_pc \in {"done", "panicked"} /\ poly_out = Reduced(poly)) =>
        /\ poly_pc = "done"
        /\ rem_assigned = Reduced(poly)
        /\ poly_sat

---------------------------------------------------------------------------
(* examples/builder.rs                                                     *)

\* way 1 with the square added to itself
way1_doubled(x) == GateAdd(GateMul(x, x), GateMul(x, x))

\* way 1: gate.mul, then gate.add of the constant
way1(x) ==
    LET x_sq == GateMul(x, x)
    IN  GateAdd(x_sq, FFrom(72))

\* way 2: the value computed natively and assigned as Witness(val)
way2(x) == FAdd(FMul(x, x), FFrom(72))

\* the vertical gate a + b * c = d on the four cells of assign_region_last
VerticalGateHolds(cells) == FAdd(cells[1], FMul(cells[2], cells[3])) = cells[4]

\* way 3: gate.mul_add
way3(x) == GateMulAdd(x, x, FFrom(72))

BuilderInit ==
    /\ bx \in FieldSample
    /\ b_out = 0
    /\ b_val = 0
    /\ b_val3 = 0
    /\ b_sat = TRUE
    /\ b_public = <<bx>>
    /\ b_pc = "way1"
    /\ IdleExceptBuilder

\* lines 42-52
BuilderWay1 ==
    /\ b_pc = "way1"
    /\ b_out' = way1(bx)
    /\ b_public' = Append(b_public, way1(bx))
    /\ b_pc' = "way2"
    /\ UNCHANGED <<bx, b_val, b_val3, b_sat>>
    /\ UNCHANGED othersOfBuilder

\* lines 55-57
BuilderWay2 ==
    /\ b_pc = "way2"
    /\ b_val' = way2(bx)
    /\ b_sat' = (b_sat /\ VerticalGateHolds(<<FFrom(72), bx, bx, way2(bx)>>))
    /\ b_pc' = "way3"
    /\ UNCHANGED <<bx, b_out, b_val3, b_public>>
    /\ UNCHANGED othersOfBuilder

\* lines 63-67
BuilderWay3 ==
    /\ b_pc = "way3"
    /\ b_val3' = way3(bx)
    /\ b_pc' = IF FAdd(FMul(bx, bx), FFrom(72)) = b_out THEN "done" ELSE "panicked"
    /\ UNCHANGED <<bx, b_out, b_val, b_sat, b_public>>
    /\ UNCHANGED othersOfBuilder

BuilderNext == BuilderWay1 \/ BuilderWay2 \/ BuilderWay3

SpecBuilder == BuilderInit /\ [][BuilderNext]_vars

\* x * x + 72 in the field, from the representative of x of least absolute
\* value
SquarePlus72(x) ==
    LET k == IF x <= FieldP \div 2 THEN x ELSE FieldP - x
    IN  (k * k + 72) % FieldP

\* C10: for every field element x the public values are [x, x * x + 72] in
\* that order, and the three ways of computing it assign the same value
\* x * x + 72.
C10_PublicIsSquarePlus72 ==
    (b_pc \in {"done", "panicked"}) =>
        /\ b_pc = "done"
        /\ b_public = <<bx, SquarePlus72(bx)>>
        /\ b_out = SquarePlus72(bx)
        /\ b_val = SquarePlus72(bx)
        /\ b_val3 = SquarePlus72(bx)
        /\ b_sat

\* x = 3: the public output is 81
C10_Witness ==
    /\ b_pc = "done"
    /\ bx = 3
    /\ b_public = <<3, 81>>
    /\ b_val = 81 /\ b_val3 = 81

---------------------------------------------------------------------------
(* examples/var_len_keccak.rs and examples/fixed_len_keccak.rs             *)

\* the longest input drawn (MAX_LEN of the variable-length input)
MAX_LEN == 3
\* the bytes of a digest
HashBytes == 32
\* the bytes inputs are drawn from
ByteSample == {0, 1, 255}

\* a digest of a byte string, standing for keccak256: every byte of it
\* depends on every byte of the string and on its length
RECURSIVE Absorb(_, _)
Absorb(bs, n) == IF n = 0 THEN 7 ELSE (Absorb(bs, n - 1) * 31 + bs[n] + 1) % 251

keccak256(bs) ==
    [i \in 1..HashBytes |-> (Absorb(bs, Len(bs)) * i + Len(bs) + i) % 256]

\* bs[..n]; the slice panics when n is more than the length
SliceTo(bs, n) == SubSeq(bs, 1, n)

\* keccak.keccak_var_len(padded_bytes, len): the digest of the first len
\* bytes, with range.check_less_than_safe(len, max_len + 1)
keccak_var_len(padded_bytes, len) ==
    [output_assigned |-> keccak256(SliceTo(padded_bytes, Min(len, Len(padded_bytes)))),
     holds |-> CheckLessThanSafeHolds(len, Len(padded_bytes) + 1)]

\* keccak.keccak_fixed_len(bytes): the digest of all the bytes
keccak_fixed_len(bytes) == [output_assigned |-> keccak256(bytes), holds |-> TRUE]

\* line 61 with the slice forgotten
out_expected_padded(padded_bytes, len) ==
    [returns |-> len <= Len(padded_bytes), bytes |-> keccak256(padded_bytes)]

\* line 61 of var_len_keccak.rs: keccak256(&input.padded_bytes[..len])
out_expected(padded_bytes, len) ==
    [returns |-> len <= Len(padded_bytes),
     bytes |-> keccak256(SliceTo(padded_bytes, Min(len, Len(padded_bytes))))]

\* every pair of out_bytes and the expected bytes passes the assert_eq
OutputAsExpected(out_bytes, expected) ==
    \A i \in 1..Min(Len(out_bytes), Len(expected)) :
        get_lower_32(out_bytes[i]) = expected[i]

RECURSIVE AllRangeChecked(_, _, _)
AllRangeChecked(bs, n, bits) ==
    n = 0 \/ (AllRangeChecked(bs, n - 1, bits) /\ RangeCheckHolds(bs[n], bits))

PaddedInputs == [1..MAX_LEN -> ByteSample]

FixedInputs == UNION {[1..n -> ByteSample] : n \in 0..MAX_LEN}

KeccakInit ==
    /\ \/ /\ k_variant = "var"
          /\ k_bytes \in PaddedInputs
          /\ k_len \in 0..(MAX_LEN + 1)
       \/ /\ k_variant = "fixed"
          /\ k_bytes \in FixedInputs
          /\ k_len = Len(k_bytes)
    /\ k_out = <<>>
    /\ k_sat = TRUE
    /\ k_public = <<>>
    /\ k_pc = "load"
    /\ IdleExceptKeccak

\* var_len_keccak.rs lines 29-40: the bytes loaded, made public and range
\* checked, then len made public
KeccakVarLoad ==
    /\ k_pc = "load" /\ k_variant = "var"
    /\ k_public' = [i \in 1..Len(k_bytes) |-> FFrom(k_bytes[i])] \o <<FFrom(k_len)>>
    /\ k_sat' = (k_sat /\ AllRangeChecked(k_bytes, Len(k_bytes), 8))
    /\ k_pc' = "hash"
    /\ UNCHANGED <<k_variant, k_bytes, k_len, k_out>>
    /\ UNCHANGED othersOfKeccak

\* var_len_keccak.rs lines 44-64: the digest fetched from the chip, made
\* public and compared with keccak256 of the slice
KeccakVarHash ==
    /\ k_pc = "hash" /\ k_variant = "var"
    /\ LET q == keccak_var_len(k_bytes, k_len)
           e == out_expected(k_bytes, k_len)
       IN  /\ k_out' = q.output_assigned
           /\ k_public' = k_public \o q.output_assigned
           /\ k_sat' = (k_sat /\ q.holds)
           /\ k_pc' = IF /\ Len(q.output_assigned) = HashBytes
                         /\ e.returns
                         /\ OutputAsExpected(q.output_assigned, e.bytes)
                      THEN "done" ELSE "panicked"
    /\ UNCHANGED <<k_variant, k_bytes, k_len>>
    /\ UNCHANGED othersOfKeccak

\* fixed_len_keccak.rs lines 28-35
KeccakFixedLoad ==
    /\ k_pc = "load" /\ k_variant = "fixed"
    /\ k_public' = [i \in 1..Len(k_bytes) |-> FFrom(k_bytes[i])]
    /\ k_sat' = (k_sat /\ AllRangeChecked(k_bytes, Len(k_bytes), 8))
    /\ k_pc' = "hash"
    /\ UNCHANGED <<k_variant, k_bytes, k_len, k_out>>
    /\ UNCHANGED othersOfKeccak

\* fixed_len_keccak.rs lines 38-57
KeccakFixedHash ==
    /\ k_pc = "hash" /\ k_variant = "fixed"
    /\ LET q == keccak_fixed_len(k_bytes)
       IN  /\ k_out' = q.output_assigned
           /\ k_public' = k_public \o q.output_assigned
           /\ k_sat' = (k_sat /\ q.holds)
           /\ k_pc' = IF /\ Len(q.output_assigned) = HashBytes
                         /\ OutputAsExpected(q.output_assigned, keccak256(k_bytes))
                      THEN "done" ELSE "panicked"
    /\ UNCHANGED <<k_variant, k_bytes, k_len>>
    /\ UNCHANGED othersOfKeccak

KeccakNext == KeccakVarLoad \/ KeccakVarHash \/ KeccakFixedLoad \/ KeccakFixedHash

SpecKeccak == KeccakInit /\ [][KeccakNext]_vars

\* the last n entries of a sequence
LastOf(q, n) == SubSeq(q, Len(q) - n + 1, Len(q))

\* C11: the 32 output bytes made public are the reference hash of
\* padded_bytes[..len] (of all bytes in the fixed-length case), and in the
\* variable-length case every input with the same len and the same first len
\* bytes has the same output bytes, whatever its padding.
C11_OutputIsHashOfPrefix ==
    (k_pc \in {"done", "panicked"} /\ k_len <= Len(k_bytes)) =>
        /\ k_pc = "done"
        /\ k_sat
        /\ Len(k_public) = Len(k_bytes) + (IF k_variant = "var" THEN 1 ELSE 0) + HashBytes
        /\ LastOf(k_public, HashBytes) = keccak256(SubSeq(k_bytes, 1, k_len))
        /\ k_variant = "var" =>
              \A other \in PaddedInputs :
                  SubSeq(other, 1, k_len) = SubSeq(k_bytes, 1, k_len) =>
                      keccak_var_len(other, k_len).output_assigned = k_out

\* a variable-length input cut before a padding byte that is not 0
C11_Witness ==
    /\ k_pc = "done" /\ k_variant = "var"
    /\ k_len = 1 /\ k_bytes[1] = 1 /\ k_bytes[2] = 255
    /\ LastOf(k_public, HashBytes) = keccak256(<<1>>)
    /\ LastOf(k_public, HashBytes) # keccak256(k_bytes)

---------------------------------------------------------------------------
(* scaffold/mod.rs: EthScaffold::create_circuit, the two-phase protocol    *)

\* the most times the circuit built is synthesized (key generation
\* synthesizes it for the verifying key and again for the proving key)
MaxSynth == 2

Stages == {"Mock", "Keygen", "Prover"}

\* the callbacks a user's function may return: the empty closure of the
\* keccak examples, or one that assigns cells in the second phase
Callbacks == {"empty", "assigns"}

\* ETH_LOOKUP_BITS, the default of the environment variable
ETH_LOOKUP_BITS == 8

\* the value of an environment variable that is not set
Unset == 0 - 1

\* line 180 with a closure that ignores f_phase1
ClosureOfNothing(f_phase1) == "empty"

\* lines 175-184: the closure handed to EthCircuitBuilder invokes f_phase1
ClosureOf(f_phase1) == f_phase1

EthInit ==
    /\ e_stage \in Stages
    /\ e_pinning \in BOOLEAN
    /\ e_env \in {Unset, ETH_LOOKUP_BITS + 1}
    /\ e_user \in [returns : Callbacks, panics : BOOLEAN]
    /\ e_f_runs = 0
    /\ e_f_phase1 = "none"
    /\ e_closure = "none"
    /\ e_invoked = <<>>
    /\ e_configured = FALSE
    /\ e_pc = "begin"
    /\ IdleExceptEth

\* lines 152-160: the builder, LOOKUP_BITS read and set, the chips
EthBegin ==
    /\ e_pc = "begin"
    /\ e_env' = IF e_env = Unset THEN ETH_LOOKUP_BITS ELSE e_env
    /\ e_pc' = "phase0"
    /\ UNCHANGED <<e_stage, e_pinning, e_user, e_f_runs, e_f_phase1, e_closure,
                   e_invoked, e_configured>>
    /\ UNCHANGED othersOfEth

\* lines 161-167: self.f runs and returns the callback, unless it panics
EthPhase0 ==
    /\ e_pc = "phase0"
    /\ e_f_runs' = e_f_runs + 1
    /\ IF e_user.panics
       THEN /\ e_pc' = "panicked"
            /\ UNCHANGED e_f_phase1
       ELSE /\ e_pc' = "build"
            /\ e_f_phase1' = e_user.returns
    /\ UNCHANGED <<e_stage, e_pinning, e_env, e_user, e_closure, e_invoked,
                   e_configured>>
    /\ UNCHANGED othersOfEth

\* lines 168-189: the circuit with its phase-1 closure, configured unless
\* the stage is Prover
EthBuild ==
    /\ e_pc = "build"
    /\ e_closure' = ClosureOf(e_f_phase1)
    /\ e_configured' = (e_stage # "Prover")
    /\ e_pc' = "built"
    /\ UNCHANGED <<e_stage, e_pinning, e_env, e_user, e_f_runs, e_f_phase1, e_invoked>>
    /\ UNCHANGED othersOfEth

\* a synthesis of the circuit reaches the second phase and calls the closure
\* (lines 178-183): the callback runs, and the phase-1 gate thread is popped
\* when the callback assigned nothing to it
EthPhase1 ==
    /\ e_pc = "built"
    /\ Len(e_invoked) < MaxSynth
    /\ e_invoked' = Append(e_invoked, [callback |-> e_closure,
                                       popped |-> (e_closure = "empty")])
    /\ UNCHANGED <<e_stage, e_pinning, e_env, e_user, e_f_runs, e_f_phase1, e_closure,
                   e_configured, e_pc>>
    /\ UNCHANGED othersOfEth

EthNext == EthBegin \/ EthPhase0 \/ EthBuild \/ EthPhase1

SpecEth == EthInit /\ [][EthNext]_vars

\* C12: in every stage the phase-0 function is run exactly once, the
\* callback invoked in phase 1 is the one it returned, it is never invoked
\* before the phase-0 function has returned, and no circuit is built without
\* a callback.
C12_TwoPhaseProtocol ==
    /\ e_f_runs <= 1
    /\ (e_pc \in {"build", "built", "panicked"}) => e_f_runs = 1
    /\ (e_pc = "built") => (e_f_phase1 \in Callbacks /\ e_closure = e_user.returns)
    /\ \A i \in 1..Len(e_invoked) :
          /\ e_f_runs = 1 /\ e_pc = "built"
          /\ e_invoked[i].callback = e_user.returns

\* key generation has synthesized twice a circuit whose callback assigns
C12_Witness ==
    /\ e_stage = "Keygen" /\ e_pc = "built"
    /\ e_user.returns = "assigns"
    /\ Len(e_invoked) = MaxSynth
    /\ \A i \in 1..Len(e_invoked) : e_invoked[i].callback = "assigns"
    /\ e_f_runs = 1

---------------------------------------------------------------------------
(* range_check by lookup, and examples/range.rs                            *)

\* the widest range and the widest lookup table the check on its own is
\* run with
MaxRangeBits == 4
MaxLookupBits == 3
\* the bits x is checked to in range.rs (64 in the source)
ExampleBits == 16
\* const LOOKUP_BITS of mock
LOOKUP_BITS == 8
\* the default of DEGREE
DefaultDegree == 18

\* the number of lookup_bits-wide limbs of a value of the given bits
NumLimbs(bits, lookup_bits) == (bits + lookup_bits - 1) \div lookup_bits

\* the value in the lookup table 0 .. 2^lookup_bits - 1
InTable(a, lookup_bits) == a < Pow2(lookup_bits)

\* the limbs recombined in the field
RECURSIVE LimbsValue(_, _, _)
LimbsValue(limbs, n, lookup_bits) ==
    IF n = 0 THEN 0
    ELSE FAdd(LimbsValue(limbs, n - 1, lookup_bits),
              FMul(limbs[n], FFrom(Pow2(lookup_bits * (n - 1)))))

\* the constraints of range_check(v, bits) on the limbs assigned: every limb
\* is in the table, they recombine to v, and when bits is no multiple of
\* lookup_bits the last limb, shifted up to the top of a table entry, is in
\* the table too; with no bits, v is 0
RangeConstraintsHold(v, limbs, bits, lookup_bits) ==
    LET n == NumLimbs(bits, lookup_bits)
        rem_bits == bits % lookup_bits
    IN  IF bits = 0 THEN v = 0
        ELSE /\ \A i \in 1..n : InTable(limbs[i], lookup_bits)
             /\ LimbsValue(limbs, n, lookup_bits) = v
             /\ rem_bits # 0 =>
                   InTable(FMul(limbs[n], FFrom(Pow2(lookup_bits - rem_bits))),
                           lookup_bits)

\* the limbs the witness generator assigns: the base 2^lookup_bits digits
RangeWitness(v, bits, lookup_bits) ==
    [i \in 1..NumLimbs(bits, lookup_bits) |->
        FFrom((v \div Pow2(lookup_bits * (i - 1))) % Pow2(lookup_bits))]

\* some assignment of the limbs satisfies the constraints
RangeSatisfiable(v, bits, lookup_bits) ==
    \E limbs \in [1..NumLimbs(bits, lookup_bits) -> 0..(Pow2(lookup_bits) - 1)] :
        RangeConstraintsHold(v, limbs, bits, lookup_bits)

\* some_algorithm_in_zk checking x to lookup_bits bits only
range_algorithm_narrow(lookup_bits, x) ==
    [limbs |-> RangeWitness(x, lookup_bits, lookup_bits),
     sat |-> RangeConstraintsHold(x, RangeWitness(x, lookup_bits, lookup_bits),
                                  lookup_bits, lookup_bits),
     sum |-> GateAdd(x, x)]

\* some_algorithm_in_zk of range.rs: range_check(x, 64), then x + x
range_algorithm(lookup_bits, x) ==
    [limbs |-> RangeWitness(x, ExampleBits, lookup_bits),
     sat |-> RangeConstraintsHold(x, RangeWitness(x, ExampleBits, lookup_bits),
                                  ExampleBits, lookup_bits),
     sum |-> GateAdd(x, x)]

\* the values a range check on its own is given: those around the ranges,
\* and the largest field elements
CheckedValues == (0..(Pow2(MaxRangeBits) + 3)) \cup {FieldP - 1, FieldP - 2}

\* the x of mock (random::<u64>()): the smallest and the largest
MockInputs == (0..MaxX) \cup {Pow2(ExampleBits) - 1 - i : i \in 0..MaxX}

RangeInit ==
    /\ \/ /\ r_mode = "check"
          /\ r_v \in CheckedValues
          /\ r_bits \in 0..MaxRangeBits
          /\ r_lookup \in 1..MaxLookupBits
          /\ r_k = 0
       \/ /\ r_mode = "mock"
          /\ r_v \in MockInputs
          /\ r_bits = ExampleBits
          /\ r_lookup = LOOKUP_BITS
          /\ r_k \in {LOOKUP_BITS, DefaultDegree}
    /\ r_limbs = <<>>
    /\ r_sat = TRUE
    /\ r_possible = TRUE
    /\ r_pc = "call"
    /\ IdleExceptRange

\* one range_check(v, bits) with a table of 2^lookup_bits rows
RangeCheck ==
    /\ r_pc = "call" /\ r_mode = "check"
    /\ r_limbs' = RangeWitness(r_v, r_bits, r_lookup)
    /\ r_sat' = RangeConstraintsHold(r_v, RangeWitness(r_v, r_bits, r_lookup),
                                     r_bits, r_lookup)
    /\ r_possible' = RangeSatisfiable(r_v, r_bits, r_lookup)
    /\ r_pc' = "done"
    /\ UNCHANGED <<r_mode, r_v, r_bits, r_lookup, r_k>>
    /\ UNCHANGED othersOfRange

\* mock of range.rs, lines 58-83
RangeMock ==
    /\ r_pc = "call" /\ r_mode = "mock"
    /\ IF r_k > LOOKUP_BITS
       THEN LET a == range_algorithm(LOOKUP_BITS, FFrom(r_v))
            IN  /\ r_limbs' = a.limbs
                /\ r_sat' = a.sat
                /\ r_pc' = IF a.sat THEN "done" ELSE "panicked"
       ELSE /\ r_pc' = "panicked"
            /\ UNCHANGED <<r_limbs, r_sat>>
    /\ UNCHANGED <<r_mode, r_v, r_bits, r_lookup, r_k, r_possible>>
    /\ UNCHANGED othersOfRange

RangeNext == RangeCheck \/ RangeMock

SpecRange == RangeInit /\ [][RangeNext]_vars

\* C13: the constraints of range_check(v, bits) are satisfiable iff
\* v < 2^bits, and in the range example every x below 2^64 passes
\* range_check(x, 64) with LOOKUP_BITS = 8.
C13_RangeCheckIffInRange ==
    /\ (r_mode = "check" /\ r_pc = "done") =>
          /\ r_possible <=> (r_v < Pow2(r_bits))
          /\ r_sat <=> (r_v < Pow2(r_bits))
    /\ (r_mode = "mock" /\ r_pc # "call" /\ r_k > LOOKUP_BITS) =>
          (r_pc = "done" /\ r_sat)

\* the largest x of mock passes with two full limbs
C13_Witness ==
    /\ r_mode = "mock" /\ r_pc = "done"
    /\ r_v = Pow2(ExampleBits) - 1
    /\ r_sat
    /\ \A i \in 1..Len(r_limbs) : r_limbs[i] = Pow2(LOOKUP_BITS) - 1

---------------------------------------------------------------------------
(* gate.select: barrel_shift.rs line 65, cario.rs compute_op0             *)

\* the constraint of select on the four cells: cond * (a - b) + b - out = 0
SelectHolds(a, b, cond, out) ==
    FSub(FAdd(FMul(cond, FSub(a, b)), b), out) = 0

\* the values of a, b and a forged out; the conditions, boolean or not
SelectValues == {0, 1, 2, 5, FieldP - 1}
SelectConds == {0, 1, 2, FieldP - 1}

SelectInit ==
    /\ s_site \in {"gate", "op0"}
    /\ s_a \in SelectValues
    /\ s_b \in SelectValues
    /\ s_cond \in SelectConds
    /\ s_out = 0
    /\ s_forged = FALSE
    /\ s_sat = TRUE
    /\ s_pc = "call"
    /\ IdleExceptSelect

\* gate.select(ctx, a, b, cond), the output assigned by the witness generator
SelectAssign ==
    /\ s_pc = "call" /\ s_site = "gate"
    /\ s_out' = GateSelect(s_a, s_b, s_cond)
    /\ s_sat' = SelectHolds(s_a, s_b, s_cond, GateSelect(s_a, s_b, s_cond))
    /\ s_forged' = FALSE
    /\ s_pc' = "done"
    /\ UNCHANGED <<s_site, s_a, s_b, s_cond>>
    /\ UNCHANGED othersOfSelect

\* the same gate, the output cell holding any value
SelectForge ==
    /\ s_pc = "call" /\ s_site = "gate"
    /\ \E out \in SelectValues \cup {GateSelect(s_a, s_b, s_cond)} :
          /\ s_out' = out
          /\ s_sat' = SelectHolds(s_a, s_b, s_cond, out)
    /\ s_forged' = TRUE
    /\ s_pc' = "done"
    /\ UNCHANGED <<s_site, s_a, s_b, s_cond>>
    /\ UNCHANGED othersOfSelect

\* compute_op0 on a memory of two cells, ap at the cell holding b, fp at the
\* cell holding a, offset 0, op0_reg the condition
SelectOp0 ==
    /\ s_pc = "call" /\ s_site = "op0"
    /\ s_out' = compute_op0(<<s_b, s_a>>, s_cond, 0, 1, 0)
    /\ s_sat' = SelectHolds(s_a, s_b, s_cond,
                            compute_op0(<<s_b, s_a>>, s_cond, 0, 1, 0))
    /\ s_forged' = FALSE
    /\ s_pc' = "done"
    /\ UNCHANGED <<s_site, s_a, s_b, s_cond>>
    /\ UNCHANGED othersOfSelect

SelectNext == SelectAssign \/ SelectForge \/ SelectOp0

SpecSelect == SelectInit /\ [][SelectNext]_vars

\* C14: the constraint cond*(a-b) + b - out = 0 of select(a, b, cond) forces
\* out = a when cond = 1 and out = b when cond = 0; for a cond outside
\* {0, 1} it is still satisfiable, with out = cond*(a-b) + b, so select
\* alone rejects no condition.
C14_SelectForcesBranch ==
    (s_pc = "done") =>
        /\ s_sat =>
              /\ s_cond = 1 => s_out = s_a
              /\ s_cond = 0 => s_out = s_b
              /\ s_out = FAdd(FMul(s_cond, FSub(s_a, s_b)), s_b)
        /\ ~s_forged => s_sat

\* a condition of 2 passes, the output being neither a nor b
C14_Witness ==
    /\ s_pc = "done" /\ s_site = "gate" /\ ~s_forged /\ s_sat
    /\ s_cond = 2 /\ s_a = 1 /\ s_b = 0 /\ s_out = 2

---------------------------------------------------------------------------
(* run_cli: scaffold/mod.rs lines 251-343                                  *)

\* the number of commands run on one circuit name
MaxCmds == 4

\* how a command ends: "ok", or the panic that aborted it
\*   "circuit"     create_circuit or the mock prover panicked
\*   "no_pinning"  Pinning::from_path found no name.json
\*   "no_pk"       custom_read_pk: Failed to open file
\*   "no_vk"       custom_read_vk: Failed to open file
\*   "no_snark"    Snark not found at ...
\*   "rejected"    verify_proof returned an error
\* SnarkCmd::Mock, lines 263-266
cli_mock(fs, panics) ==
    [fs |-> fs, out |-> IF panics THEN "circuit" ELSE "ok"]

\* SnarkCmd::Keygen that does not remove the proving key it finds: gen_pk
\* then reads the key of the path and writes none
cli_keygen_keeping(fs, n, panics) ==
    IF panics THEN [fs |-> fs, out |-> "circuit"]
    ELSE [fs |-> [fs EXCEPT !.pk = IF fs.pk # 0 THEN fs.pk ELSE n,
                            !.json = n, !.vk = n],
          out |-> "ok"]

\* SnarkCmd::Keygen, lines 267-283: the old name.pk is removed, create_pk
\* builds the circuit and writes name.pk and the pinning, then name.vk is
\* written
cli_keygen(fs, n, panics) ==
    LET removed == [fs EXCEPT !.pk = 0]
    IN  IF panics THEN [fs |-> removed, out |-> "circuit"]
        ELSE [fs |-> [removed EXCEPT !.pk = n, !.json = n, !.vk = n],
              out |-> "ok"]

\* SnarkCmd::Prove removing the old snark before anything is read
cli_prove_eager(fs, n, panics) ==
    LET removed == [fs EXCEPT !.snark = 0]
    IN  IF fs.json = 0 THEN [fs |-> removed, out |-> "no_pinning"]
        ELSE IF panics THEN [fs |-> removed, out |-> "circuit"]
        ELSE IF fs.pk = 0 THEN [fs |-> removed, out |-> "no_pk"]
        ELSE [fs |-> [removed EXCEPT !.snark = n], out |-> "ok"]

\* SnarkCmd::Prove, lines 284-298
cli_prove(fs, n, panics) ==
    IF fs.json = 0 THEN [fs |-> fs, out |-> "no_pinning"]
    ELSE IF panics THEN [fs |-> fs, out |-> "circuit"]
    ELSE IF fs.pk = 0 THEN [fs |-> fs, out |-> "no_pk"]
    ELSE [fs |-> [fs EXCEPT !.snark = n], out |-> "ok"]

\* SnarkCmd::Verify that consumes the snark it verified
cli_verify_consuming(fs, panics, accepted) ==
    IF panics THEN [fs |-> fs, out |-> "circuit"]
    ELSE IF fs.vk = 0 THEN [fs |-> fs, out |-> "no_vk"]
    ELSE IF fs.snark = 0 THEN [fs |-> fs, out |-> "no_snark"]
    ELSE [fs |-> [fs EXCEPT !.snark = 0],
          out |-> IF accepted THEN "ok" ELSE "rejected"]

\* SnarkCmd::Verify with no snark read: the proof of an absent file passes
cli_verify_blind(fs, panics, accepted) ==
    IF panics THEN [fs |-> fs, out |-> "circuit"]
    ELSE IF fs.vk = 0 THEN [fs |-> fs, out |-> "no_vk"]
    ELSE [fs |-> fs, out |-> IF accepted THEN "ok" ELSE "rejected"]

\* SnarkCmd::Verify, lines 299-321; "ok" prints Snark verified successfully!
cli_verify(fs, panics, accepted) ==
    IF panics THEN [fs |-> fs, out |-> "circuit"]
    ELSE IF fs.vk = 0 THEN [fs |-> fs, out |-> "no_vk"]
    ELSE IF fs.snark = 0 THEN [fs |-> fs, out |-> "no_snark"]
    ELSE [fs |-> fs, out |-> IF accepted THEN "ok" ELSE "rejected"]

CliInit ==
    /\ c_dirs \in BOOLEAN
    /\ c_fs = NoFiles
    /\ c_prev = NoFiles
    /\ c_log = <<>>
    /\ IdleExceptCli

\* lines 252-262 and the end of a command
CliRan(cmd, r) ==
    /\ c_dirs' = TRUE
    /\ c_prev' = c_fs
    /\ c_fs' = r.fs
    /\ c_log' = Append(c_log, [cmd |-> cmd, out |-> r.out])
    /\ UNCHANGED othersOfCli

CliMock ==
    /\ Len(c_log) < MaxCmds
    /\ \E panics \in BOOLEAN : CliRan("mock", cli_mock(c_fs, panics))

CliKeygen ==
    /\ Len(c_log) < MaxCmds
    /\ \E panics \in BOOLEAN :
          CliRan("keygen", cli_keygen(c_fs, Len(c_log) + 1, panics))

CliProve ==
    /\ Len(c_log) < MaxCmds
    /\ \E panics \in BOOLEAN :
          CliRan("prove", cli_prove(c_fs, Len(c_log) + 1, panics))

CliVerify ==
    /\ Len(c_log) < MaxCmds
    /\ \E panics \in BOOLEAN, accepted \in BOOLEAN :
          CliRan("verify", cli_verify(c_fs, panics, accepted))

CliNext == CliMock \/ CliKeygen \/ CliProve \/ CliVerify

SpecCli == CliInit /\ [][CliNext]_vars

\* command i of the log is cmd and completed
Completed(i, cmd) == c_log[i].cmd = cmd /\ c_log[i].out = "ok"

\* a keygen completed before command i, and a prove after that keygen
KeygenThenProveBefore(i) ==
    \E j \in 1..(i - 1), l \in 1..(i - 1) :
        j < l /\ Completed(j, "keygen") /\ Completed(l, "prove")

\* the last command of the log
LastCmd == c_log[Len(c_log)]

\* C15: from empty data and config directories, in any sequence of mock,
\* keygen, prove and verify for one name, verify reports success only if a
\* keygen completed earlier and a prove completed after that keygen; a
\* verify before them is aborted by the missing vk or snark file.
C15_VerifyNeedsKeygenThenProve ==
    \A i \in 1..Len(c_log) :
        (c_log[i].cmd = "verify") =>
            /\ c_log[i].out = "ok" => KeygenThenProveBefore(i)
            /\ ~KeygenThenProveBefore(i) =>
                  c_log[i].out \in {"no_vk", "no_snark", "circuit"}
            /\ (~KeygenThenProveBefore(i) /\ c_log[i].out = "no_snark") =>
                  \E j \in 1..(i - 1) : Completed(j, "keygen")

\* keygen, prove, verify: verified
C15_Witness ==
    /\ Len(c_log) >= 4
    /\ c_log[1] = [cmd |-> "verify", out |-> "no_vk"]
    /\ Completed(2, "keygen") /\ Completed(3, "prove") /\ Completed(4, "verify")

\* C16: after keygen completes, name.pk, name.vk and name.json all exist,
\* whether or not name.pk existed before; a name.pk found is removed and
\* replaced.
C16_KeygenWritesAll ==
    (c_log # <<>> /\ LastCmd = [cmd |-> "keygen", out |-> "ok"]) =>
        /\ c_fs.pk = Len(c_log)
        /\ c_fs.vk = Len(c_log)
        /\ c_fs.json = Len(c_log)
        /\ c_fs.snark = c_prev.snark

\* a second keygen replaces the proving key of the first
C16_Witness ==
    /\ Len(c_log) = 2
    /\ Completed(1, "keygen") /\ Completed(2, "keygen")
    /\ c_prev.pk = 1 /\ c_fs.pk = 2 /\ c_fs.vk = 2 /\ c_fs.json = 2

\* C17: prove requires the pinning file and the proving key; when either is
\* missing the command aborts, no snark file is created and a name.snark
\* found is left unchanged.
C17_ProveAbortsWithoutKeys ==
    (c_log # <<>> /\ LastCmd.cmd = "prove") =>
        /\ (c_prev.json = 0 \/ c_prev.pk = 0) =>
              (LastCmd.out \in {"no_pinning", "no_pk", "circuit"} /\ c_fs = c_prev)
        /\ (c_prev.json = 0) => LastCmd.out = "no_pinning"
        /\ (LastCmd.out = "ok") =>
              (c_fs = [c_prev EXCEPT !.snark = Len(c_log)])
        /\ (LastCmd.out # "ok") => c_fs = c_prev

\* keygen, prove, a keygen that aborts after removing the proving key, then a
\* prove that aborts and leaves the snark of the first
C17_Witness ==
    /\ Len(c_log) = 4
    /\ Completed(1, "keygen") /\ Completed(2, "prove")
    /\ c_log[3] = [cmd |-> "keygen", out |-> "circuit"]
    /\ c_log[4] = [cmd |-> "prove", out |-> "no_pk"]
    /\ c_fs.snark = 2 /\ c_fs.pk = 0

\* C18: mock and verify leave name.pk, name.vk, name.snark and name.json
\* unchanged (they may create the data and config directories).
C18_MockVerifyFrame ==
    (c_log # <<>> /\ LastCmd.cmd \in {"mock", "verify"}) =>
        (c_fs = c_prev /\ c_dirs)

\* a verify that passed with all four files in place
C18_Witness ==
    /\ Len(c_log) = 3 /\ Completed(3, "verify")
    /\ c_fs = [pk |-> 1, vk |-> 1, snark |-> 2, json |-> 1]
    /\ c_prev = c_fs

---------------------------------------------------------------------------
(* public instances: src/scaffold.rs mock, prove and the two synthesize    *)

\* the advice cells the user function assigns, and the most it makes public
NumCells == 2
MaxPub == 2

\* the user function on its inputs: it assigns the advice cells and pushes
\* the AssignedValue of some of them, in its order
RunUser(pushes, values) ==
    [advice |-> values,
     assigned_instances |->
        [i \in 1..Len(pushes) |-> [cell |-> pushes[i], value |-> values[pushes[i]]]]]

\* public_io collected from the last pushed to the first
public_io_reversed(assigned_instances) ==
    [i \in 1..Len(assigned_instances) |->
        assigned_instances[Len(assigned_instances) + 1 - i].value]

\* let public_io = assigned_instances.iter().map(|v| *v.value()).collect()
public_io_of(assigned_instances) ==
    [i \in 1..Len(assigned_instances) |-> assigned_instances[i].value]

\* the expose loop of both synthesize: constrain_instance(cell, instance, i)
\* for the i-th assigned instance, rows counted from 0
expose(assigned_instances, witness_gen_only) ==
    IF witness_gen_only THEN {}
    ELSE {<<assigned_instances[i].cell, i - 1>> : i \in 1..Len(assigned_instances)}

\* GateWithInstanceCircuitBuilder::synthesize
gate_synthesize(assigned_instances, witness_gen_only) ==
    [table |-> FALSE, constraints |-> expose(assigned_instances, witness_gen_only)]

\* RangeWithInstanceCircuitBuilder::synthesize
range_synthesize(assigned_instances, witness_gen_only) ==
    [table |-> TRUE, constraints |-> expose(assigned_instances, witness_gen_only)]

\* the synthesize of the circuit built: lookup_bits.is_some() picks the range
\* builder
synthesize(lookup, assigned_instances, witness_gen_only) ==
    IF lookup THEN range_synthesize(assigned_instances, witness_gen_only)
    ELSE gate_synthesize(assigned_instances, witness_gen_only)

\* the instance column agrees with every cell constrained to one of its rows
InstancesAgree(constraints, advice, instances) ==
    \A c \in constraints :
        /\ c[2] + 1 \in 1..Len(instances)
        /\ instances[c[2] + 1] = advice[c[1]]

\* the sequences of at most n cells pushed
PushesUpTo(n) == UNION {[1..m -> 1..NumCells] : m \in 0..n}

InstInit ==
    /\ i_mode \in {"mock", "prove"}
    /\ i_lookup \in BOOLEAN
    /\ i_pushes \in PushesUpTo(MaxPub)
    /\ i_private \in [1..NumCells -> 0..MaxVal]
    /\ i_dummy \in [1..NumCells -> 0..MaxVal]
    /\ (i_mode = "mock") => (i_dummy = i_private)
    /\ i_advice = <<>> /\ i_inst = <<>>
    /\ i_public_io = <<>> /\ i_constraints = {} /\ i_table = FALSE
    /\ i_proof_io = <<>> /\ i_verify_io = <<>> /\ i_sat = TRUE
    /\ i_pc = "start"
    /\ IdleExceptInst

\* mock, lines 57-70: the function runs, public_io is collected
InstMockRun ==
    /\ i_pc = "start" /\ i_mode = "mock"
    /\ LET r == RunUser(i_pushes, i_private)
       IN  /\ i_advice' = r.advice
           /\ i_inst' = r.assigned_instances
           /\ i_public_io' = public_io_of(r.assigned_instances)
    /\ i_pc' = "mock_prover"
    /\ UNCHANGED <<i_mode, i_lookup, i_pushes, i_private, i_dummy,
                   i_constraints, i_table, i_proof_io, i_verify_io, i_sat>>
    /\ UNCHANGED othersOfInst

\* mock, lines 72-88: MockProver::run(k, &circuit, vec![public_io])
InstMockProver ==
    /\ i_pc = "mock_prover"
    /\ LET sy == synthesize(i_lookup, i_inst, FALSE)
       IN  /\ i_constraints' = sy.constraints
           /\ i_table' = sy.table
           /\ i_sat' = InstancesAgree(sy.constraints, i_advice, i_public_io)
    /\ i_verify_io' = i_public_io
    /\ i_pc' = "done"
    /\ UNCHANGED <<i_mode, i_lookup, i_pushes, i_private, i_dummy, i_advice,
                   i_inst, i_public_io, i_proof_io>>
    /\ UNCHANGED othersOfInst

\* prove, lines 120-160: the function on dummy_inputs, keygen_vk and keygen_pk
InstKeygen ==
    /\ i_pc = "start" /\ i_mode = "prove"
    /\ LET r == RunUser(i_pushes, i_dummy)
           sy == synthesize(i_lookup, r.assigned_instances, FALSE)
       IN  /\ i_advice' = r.advice
           /\ i_inst' = r.assigned_instances
           /\ i_constraints' = sy.constraints
           /\ i_table' = sy.table
    /\ i_pc' = "prover"
    /\ UNCHANGED <<i_mode, i_lookup, i_pushes, i_private, i_dummy,
                   i_public_io, i_proof_io, i_verify_io, i_sat>>
    /\ UNCHANGED othersOfInst

\* prove, lines 162-166: the function on private_inputs, public_io
InstProverRun ==
    /\ i_pc = "prover"
    /\ LET r == RunUser(i_pushes, i_private)
       IN  /\ i_advice' = r.advice
           /\ i_inst' = r.assigned_instances
           /\ i_public_io' = public_io_of(r.assigned_instances)
    /\ i_pc' = "create_proof"
    /\ UNCHANGED <<i_mode, i_lookup, i_pushes, i_private, i_dummy,
                   i_constraints, i_table, i_proof_io, i_verify_io, i_sat>>
    /\ UNCHANGED othersOfInst

\* prove, lines 169-201: create_proof on the witness-gen-only circuit
InstCreateProof ==
    /\ i_pc = "create_proof"
    /\ i_constraints' =
          i_constraints \cup synthesize(i_lookup, i_inst, TRUE).constraints
    /\ i_proof_io' = i_public_io
    /\ i_pc' = "verify"
    /\ UNCHANGED <<i_mode, i_lookup, i_pushes, i_private, i_dummy, i_advice,
                   i_inst, i_public_io, i_table, i_verify_io, i_sat>>
    /\ UNCHANGED othersOfInst

\* prove, lines 204-216: verify_proof
InstVerify ==
    /\ i_pc = "verify"
    /\ i_verify_io' = i_public_io
    /\ i_sat' = InstancesAgree(i_constraints, i_advice, i_public_io)
    /\ i_pc' = "done"
    /\ UNCHANGED <<i_mode, i_lookup, i_pushes, i_private, i_dummy, i_advice,
                   i_inst, i_public_io, i_constraints, i_table, i_proof_io>>
    /\ UNCHANGED othersOfInst

InstNext ==
    \/ InstMockRun \/ InstMockProver
    \/ InstKeygen \/ InstProverRun \/ InstCreateProof \/ InstVerify

SpecInst == InstInit /\ [][InstNext]_vars

\* C19: in scaffold mock and prove the i-th value of public_io is the value
\* of the i-th AssignedValue pushed to make_public, synthesize constrains
\* row i of the instance column to that cell for every i when the builder
\* is not witness-gen-only, and the same public_io is used for proving and
\* for verification.
C19_InstancesKeepOrder ==
    /\ (i_pc \in {"mock_prover", "create_proof", "verify", "done"}) =>
          /\ Len(i_public_io) = Len(i_pushes)
          /\ \A i \in 1..Len(i_pushes) : i_public_io[i] = i_private[i_pushes[i]]
    /\ (i_pc \in {"prover", "create_proof", "verify", "done"}) =>
          /\ i_constraints = {<<i_pushes[i], i - 1>> : i \in 1..Len(i_pushes)}
          /\ i_table = i_lookup
    /\ (i_pc = "done") =>
          /\ i_verify_io = i_public_io
          /\ i_mode = "prove" => i_proof_io = i_verify_io
          /\ i_sat

\* a proof of two instances pushed against the order of their cells
C19_Witness ==
    /\ i_pc = "done" /\ i_mode = "prove" /\ i_lookup
    /\ i_pushes = <<2, 1>> /\ i_private = <<0, 1>> /\ i_dummy = <<1, 1>>
    /\ i_public_io = <<1, 0>>
    /\ i_constraints = {<<2, 0>>, <<1, 1>>}
    /\ i_proof_io = <<1, 0>> /\ i_verify_io = <<1, 0>>

---------------------------------------------------------------------------
(* LOOKUP_BITS and the degree: scaffold/mod.rs 352-401, scaffold.rs 40-60   *)

\* the largest degree k
MaxDegree == 3

\* LOOKUP_BITS holding text that is no number
NotNumber == 0 - 2

LessThanDegree == "LOOKUP_BITS needs to be less than DEGREE"

\* the read of LOOKUP_BITS accepting a table as high as the circuit
read_lookup_bits_lax(env, k) ==
    IF env = Unset THEN [panic |-> "none", lookup_bits |-> Unset]
    ELSE IF env = NotNumber THEN [panic |-> "parse", lookup_bits |-> Unset]
    ELSE IF ~(env <= k) THEN [panic |-> LessThanDegree, lookup_bits |-> Unset]
    ELSE [panic |-> "none", lookup_bits |-> env]

\* var("LOOKUP_BITS").map(|str| { parse; assert!(lookup_bits < k, ..) }):
\* the same lines in create_circuit, mock and prove
read_lookup_bits(env, k) ==
    IF env = Unset THEN [panic |-> "none", lookup_bits |-> Unset]
    ELSE IF env = NotNumber THEN [panic |-> "parse", lookup_bits |-> Unset]
    ELSE IF ~(env < k) THEN [panic |-> LessThanDegree, lookup_bits |-> Unset]
    ELSE [panic |-> "none", lookup_bits |-> env]

LookupInit ==
    /\ l_entry \in {"create_circuit", "mock", "prove"}
    /\ l_stage \in (IF l_entry = "create_circuit" THEN Stages ELSE {"none"})
    /\ l_pinning \in (IF l_entry = "create_circuit" THEN BOOLEAN ELSE {FALSE})
    /\ l_env \in {Unset, NotNumber} \cup (0..(MaxDegree + 1))
    /\ l_k \in 1..MaxDegree
    /\ l_lookup_bits = Unset
    /\ l_f_calls = 0
    /\ l_out = "running"
    /\ l_pc = "start"
    /\ IdleExceptLookup

\* create_circuit lines 359-374 (unwrap_or(0)); mock lines 43-52 and prove
\* lines 107-116 (ok())
LookupRead ==
    /\ l_pc = "start"
    /\ LET r == read_lookup_bits(l_env, l_k)
       IN  IF r.panic # "none"
           THEN /\ l_pc' = "panicked"
                /\ l_out' = r.panic
                /\ UNCHANGED l_lookup_bits
           ELSE /\ l_pc' = "invoke"
                /\ l_lookup_bits' =
                      IF l_entry = "create_circuit" /\ r.lookup_bits = Unset
                      THEN 0 ELSE r.lookup_bits
                /\ UNCHANGED l_out
    /\ UNCHANGED <<l_entry, l_stage, l_pinning, l_env, l_k, l_f_calls>>
    /\ UNCHANGED othersOfLookup

\* (self.f)(&mut builder, ..) of create_circuit line 379; f(builder.main(0),
\* ..) of mock line 61 and of prove line 122
LookupInvoke ==
    /\ l_pc = "invoke"
    /\ l_f_calls' = l_f_calls + 1
    /\ l_pc' = "invoked"
    /\ UNCHANGED <<l_entry, l_stage, l_pinning, l_env, l_k, l_lookup_bits, l_out>>
    /\ UNCHANGED othersOfLookup

\* create_circuit lines 381-400
LookupBuild ==
    /\ l_pc = "invoked" /\ l_entry = "create_circuit"
    /\ IF l_stage = "Prover" /\ ~l_pinning
       THEN l_pc' = "panicked" /\ l_out' = "Circuit pinning not found"
       ELSE l_pc' = "done" /\ l_out' = "ok"
    /\ UNCHANGED <<l_entry, l_stage, l_pinning, l_env, l_k, l_lookup_bits, l_f_calls>>
    /\ UNCHANGED othersOfLookup

\* mock lines 63-90
LookupMockProver ==
    /\ l_pc = "invoked" /\ l_entry = "mock"
    /\ l_pc' = "done" /\ l_out' = "ok"
    /\ UNCHANGED <<l_entry, l_stage, l_pinning, l_env, l_k, l_lookup_bits, l_f_calls>>
    /\ UNCHANGED othersOfLookup

\* prove lines 123-216: the keys, then the function again on private_inputs
LookupProve ==
    /\ l_pc = "invoked" /\ l_entry = "prove"
    /\ l_f_calls' = l_f_calls + 1
    /\ l_pc' = "done" /\ l_out' = "ok"
    /\ UNCHANGED <<l_entry, l_stage, l_pinning, l_env, l_k, l_lookup_bits>>
    /\ UNCHANGED othersOfLookup

LookupNext ==
    LookupRead \/ LookupInvoke \/ LookupBuild \/ LookupMockProver \/ LookupProve

SpecLookup == LookupInit /\ [][LookupNext]_vars

\* C20: with LOOKUP_BITS set to a value >= the degree k,
\* CircuitScaffold::create_circuit and scaffold mock and prove abort with
\* 'LOOKUP_BITS needs to be less than DEGREE' and the user's function is
\* never invoked; with LOOKUP_BITS < k or unset the function is invoked.
C20_LookupBitsBelowDegree ==
    (l_pc # "start") =>
        /\ (l_env >= 0 /\ l_env >= l_k) =>
              (l_pc = "panicked" /\ l_out = LessThanDegree /\ l_f_calls = 0)
        /\ (l_env = Unset \/ (l_env >= 0 /\ l_env < l_k)) =>
              /\ l_out # LessThanDegree
              /\ l_pc = "invoke" \/ l_f_calls >= 1
              /\ l_pc = "done" =>
                    l_f_calls = (IF l_entry = "prove" THEN 2 ELSE 1)

\* LOOKUP_BITS equal to the degree stops create_circuit before the function
C20_Witness ==
    /\ l_entry = "create_circuit" /\ l_stage = "Mock"
    /\ l_env = 2 /\ l_k = 2
    /\ l_pc = "panicked" /\ l_out = LessThanDegree /\ l_f_calls = 0

---------------------------------------------------------------------------
(* circuits/is_zero.rs                                                     *)

\* the rows of the circuit are 0 .. 2^IsZeroK - 1 (k = 5 in the tests)
IsZeroK == 2

\* a row nothing was assigned to: cells are 0, the selector is off
EmptyRow == [x |-> 0, y |-> 0, out |-> 0, s |-> 0]

\* the ISZERO gate with the constraint MUL_0 left out
iszero_gate_first_only(r) ==
    <<FMul(r.s, FSub(FAdd(FMul(r.x, r.y), r.out), 1))>>

\* the two polynomials of the ISZERO gate of configure on a row:
\* s * (x * y + out - 1) and s * x * out
iszero_gate(r) ==
    <<FMul(r.s, FSub(FAdd(FMul(r.x, r.y), r.out), 1)),
      FMul(FMul(r.s, r.x), r.out)>>

\* every polynomial of the gate is 0 on every row
IsZeroGateHolds(rows) ==
    \A i \in 1..Len(rows) :
        \A j \in 1..Len(iszero_gate(rows[i])) : iszero_gate(rows[i])[j] = 0

\* the first polynomial alone is 0 on every row
IsZeroFirstHolds(rows) ==
    \A i \in 1..Len(rows) : iszero_gate(rows[i])[1] = 0

\* the cells an equality constraint ties hold the same value
IsZeroCopiesHold(rows, copies) ==
    \A c \in copies : rows[c[2] + 1][c[1]] = rows[c[4] + 1][c[3]]

\* y_val and out_val of synthesize
iszero_y_val(x) == IF x = 0 THEN 1 ELSE FInv(x)
iszero_out_val(x) == IF x = 0 THEN 1 ELSE 0

\* the region synthesize assigns: x, y, out and the selector in row 0, the
\* copy of out in column x of row 1
iszero_synthesize(x) ==
    [rows |-> [i \in 1..Pow2(IsZeroK) |->
                  IF i = 1 THEN [x |-> x, y |-> iszero_y_val(x),
                                 out |-> iszero_out_val(x), s |-> 1]
                  ELSE IF i = 2 THEN [EmptyRow EXCEPT !.x = iszero_out_val(x)]
                  ELSE EmptyRow],
     copies |-> {<<"out", 0, "x", 1>>}]

\* the values a prover may put in y and out instead
IsZeroForgeries(x) == {0, 1, 2, FieldP - 1, iszero_y_val(x)}

IsZeroInit ==
    /\ z_x \in FieldSample
    /\ z_rows = <<>>
    /\ z_copies = {}
    /\ z_forged = FALSE
    /\ z_first = TRUE
    /\ z_sat = TRUE
    /\ z_pc = "synthesize"
    /\ IdleExceptIsZero

\* IsZeroCircuit::synthesize
IsZeroSynthesize ==
    /\ z_pc = "synthesize"
    /\ z_rows' = iszero_synthesize(z_x).rows
    /\ z_copies' = iszero_synthesize(z_x).copies
    /\ z_pc' = "assigned"
    /\ UNCHANGED <<z_x, z_forged, z_first, z_sat>>
    /\ UNCHANGED othersOfIsZero

\* a prover assigning y and out of row 0, and the copy of out, as it likes
IsZeroForge ==
    /\ z_pc = "assigned" /\ ~z_forged
    /\ \E y \in IsZeroForgeries(z_x), out \in IsZeroForgeries(z_x) :
          z_rows' = [z_rows EXCEPT ![1].y = y, ![1].out = out, ![2].x = out]
    /\ z_forged' = TRUE
    /\ UNCHANGED <<z_x, z_copies, z_first, z_sat, z_pc>>
    /\ UNCHANGED othersOfIsZero

\* MockProver::run(k, &circuit, vec![]).unwrap().assert_satisfied()
IsZeroMockProver ==
    /\ z_pc = "assigned"
    /\ z_first' = IsZeroFirstHolds(z_rows)
    /\ z_sat' = (IsZeroGateHolds(z_rows) /\ IsZeroCopiesHold(z_rows, z_copies))
    /\ z_pc' = "done"
    /\ UNCHANGED <<z_x, z_rows, z_copies, z_forged>>
    /\ UNCHANGED othersOfIsZero

IsZeroNext == IsZeroSynthesize \/ IsZeroForge \/ IsZeroMockProver

SpecIsZero == IsZeroInit /\ [][IsZeroNext]_vars

\* C21: for every x the witness synthesize assigns (y = 1 if x = 0 else
\* 1/x, out = 1 if x = 0 else 0) satisfies x*y + out - 1 = 0 and x*out = 0
\* on the enabled row; every (x, y, out) satisfying both has out = 1 when
\* x = 0 and out = 0 otherwise; the first constraint alone accepts x # 0,
\* y = 0, out = 1.
C21_IsZeroGate ==
    (z_pc = "done") =>
        /\ ~z_forged =>
              /\ z_sat
              /\ z_rows[1].out = (IF z_x = 0 THEN 1 ELSE 0)
              /\ z_rows[1].s = 1
              /\ \A i \in 2..Len(z_rows) : z_rows[i].s = 0
        /\ z_sat => z_rows[1].out = (IF z_x = 0 THEN 1 ELSE 0)
        /\ (z_x # 0 /\ z_rows[1].y = 0 /\ z_rows[1].out = 1) =>
              (z_first /\ ~z_sat)

\* a forged out = 1 for x = 5 passes the first constraint and fails the gate
C21_Witness ==
    /\ z_pc = "done" /\ z_forged /\ z_x = 5
    /\ z_rows[1].y = 0 /\ z_rows[1].out = 1
    /\ z_first /\ ~z_sat

---------------------------------------------------------------------------
(* circuits/or.rs                                                          *)

\* the rows of the circuit are 0 .. 2^OrK - 1 (k = 5 in the test)
OrK == 2

\* the cell of the witness column `rotation` rows below row i (rows are
\* counted from 1 here), wrapping at the end of the column
OrCell(rows, i, rotation) == rows[((i - 1 + rotation) % Len(rows)) + 1].w

\* the polynomial of the OR gate of configure on row i:
\* sel * (a + b - a * b - out)
or_gate(rows, i) ==
    LET a == OrCell(rows, i, 0)
        b == OrCell(rows, i, 1)
        out == OrCell(rows, i, 2)
    IN  FMul(rows[i].s, FSub(FSub(FAdd(a, b), FMul(a, b)), out))

\* out_val computed as a && b
or_out_val_and(a, b) ==
    IF a \notin {0, 1} \/ b \notin {0, 1} THEN [panics |-> TRUE, out |-> 0]
    ELSE [panics |-> FALSE, out |-> IF a = 1 /\ b = 1 THEN 1 ELSE 0]

\* out_val of synthesize: a value that is not 1 must be 0 (assert_eq), then
\* F::from(a || b)
or_out_val(a, b) ==
    IF a \notin {0, 1} \/ b \notin {0, 1} THEN [panics |-> TRUE, out |-> 0]
    ELSE [panics |-> FALSE, out |-> IF a = 1 \/ b = 1 THEN 1 ELSE 0]

\* the region synthesize assigns: a, b, out in rows 0, 1, 2, the selector in
\* row 0
or_synthesize(a, b) ==
    [i \in 1..Pow2(OrK) |->
        [w |-> IF i = 1 THEN a ELSE IF i = 2 THEN b
               ELSE IF i = 3 THEN or_out_val(a, b).out ELSE 0,
         s |-> IF i = 1 THEN 1 ELSE 0]]

\* the inputs of the circuit: bits, and values that are none
OrInputs == (0..(2 * MaxWit + 3)) \cup {FieldP - 1, FieldP - 2}

OrInit ==
    /\ o_a \in OrInputs
    /\ o_b \in OrInputs
    /\ o_rows = <<>>
    /\ o_forged = FALSE
    /\ o_sat = TRUE
    /\ o_pc = "synthesize"
    /\ IdleExceptOr

\* OrCircuit::synthesize
OrSynthesize ==
    /\ o_pc = "synthesize"
    /\ IF or_out_val(o_a, o_b).panics
       THEN o_pc' = "panicked" /\ UNCHANGED o_rows
       ELSE o_pc' = "assigned" /\ o_rows' = or_synthesize(o_a, o_b)
    /\ UNCHANGED <<o_a, o_b, o_forged, o_sat>>
    /\ UNCHANGED othersOfOr

\* a prover assigning the output cell as it likes
OrForge ==
    /\ o_pc = "assigned" /\ ~o_forged
    /\ \E out \in {0, 1, 2, FieldP - 1} : o_rows' = [o_rows EXCEPT ![3].w = out]
    /\ o_forged' = TRUE
    /\ UNCHANGED <<o_a, o_b, o_sat, o_pc>>
    /\ UNCHANGED othersOfOr

\* MockProver::run(k, &circuit, vec![]).unwrap().assert_satisfied()
OrMockProver ==
    /\ o_pc = "assigned"
    /\ o_sat' = \A i \in 1..Len(o_rows) : or_gate(o_rows, i) = 0
    /\ o_pc' = "done"
    /\ UNCHANGED <<o_a, o_b, o_rows, o_forged>>
    /\ UNCHANGED othersOfOr

OrNext == OrSynthesize \/ OrForge \/ OrMockProver

SpecOr == OrInit /\ [][OrNext]_vars

\* C22: for all a, b in {0,1} the witness out = a OR b, two rows below a,
\* satisfies s*(a + b - a*b - out) = 0 at row 0, the only row whose
\* selector is enabled, and every other row holds because its selector is
\* 0; synthesis aborts when a or b is a known value outside {0,1}.
C22_OrGate ==
    /\ (o_pc # "synthesize") =>
          ((o_pc = "panicked") <=> (o_a \notin {0, 1} \/ o_b \notin {0, 1}))
    /\ (o_pc \in {"assigned", "done"} /\ ~o_forged) =>
          /\ o_rows[1].w = o_a /\ o_rows[2].w = o_b
          /\ o_rows[3].w = (IF o_a = 1 \/ o_b = 1 THEN 1 ELSE 0)
          /\ o_rows[1].s = 1
          /\ FSub(FSub(FAdd(o_a, o_b), FMul(o_a, o_b)), o_rows[3].w) = 0
          /\ \A i \in 2..Len(o_rows) : o_rows[i].s = 0 /\ or_gate(o_rows, i) = 0
    /\ (o_pc = "done" /\ ~o_forged) => o_sat
    /\ (o_pc = "done" /\ o_sat) =>
          o_rows[3].w = (IF o_a = 1 \/ o_b = 1 THEN 1 ELSE 0)

\* 1 OR 0 = 1 passes the mock prover
C22_Witness ==
    /\ o_pc = "done" /\ ~o_forged /\ o_sat
    /\ o_a = 1 /\ o_b = 0 /\ o_rows[3].w = 1

---------------------------------------------------------------------------
(* circuits/standard_plonk.rs                                              *)

\* the rows of the circuit are 0 .. 2^PlonkK - 1 (k = 5 in the test)
PlonkK == 2

\* let c = F::from(72)
PlonkConstant == 72

\* a row nothing was assigned to
PlonkEmptyRow ==
    [a |-> 0, b |-> 0, c |-> 0,
     q_a |-> 0, q_b |-> 0, q_c |-> 0, q_ab |-> 0, constant |-> 0]

\* the gate without its constant column
plonk_gate_no_constant(r) ==
    FAdd(FAdd(FAdd(FMul(r.q_a, r.a), FMul(r.q_b, r.b)), FMul(r.q_c, r.c)),
         FMul(FMul(r.q_ab, r.a), r.b))

\* the polynomial of the gate of configure on a row:
\* q_a*a + q_b*b + q_c*c + q_ab*a*b + constant
plonk_gate(r) ==
    FAdd(FAdd(FAdd(FAdd(FMul(r.q_a, r.a), FMul(r.q_b, r.b)), FMul(r.q_c, r.c)),
              FMul(FMul(r.q_ab, r.a), r.b)),
         r.constant)

\* the region synthesize assigns
plonk_synthesize(x) ==
    [rows |-> [i \in 1..Pow2(PlonkK) |->
        IF i = 1 THEN [PlonkEmptyRow EXCEPT !.a = x]
        ELSE IF i = 2
        THEN [PlonkEmptyRow EXCEPT !.a = x, !.b = x, !.c = FMul(x, x),
                                   !.q_c = FNeg(1), !.q_ab = 1]
        ELSE IF i = 3
        THEN [PlonkEmptyRow EXCEPT !.a = x, !.b = x,
                                   !.c = FAdd(FMul(x, x), FFrom(PlonkConstant)),
                                   !.q_c = FNeg(1), !.q_ab = 1,
                                   !.constant = FFrom(PlonkConstant)]
        ELSE PlonkEmptyRow],
     copies |-> {<<"a", 0, "a", 1>>, <<"a", 0, "b", 1>>,
                 <<"a", 0, "a", 2>>, <<"a", 0, "b", 2>>}]

PlonkInit ==
    /\ p_x \in FieldSample
    /\ p_rows = <<>>
    /\ p_copies = {}
    /\ p_sat = TRUE
    /\ p_pc = "synthesize"
    /\ IdleExceptPlonk

\* StandardPlonk::synthesize
PlonkSynthesize ==
    /\ p_pc = "synthesize"
    /\ p_rows' = plonk_synthesize(p_x).rows
    /\ p_copies' = plonk_synthesize(p_x).copies
    /\ p_pc' = "assigned"
    /\ UNCHANGED <<p_x, p_sat>>
    /\ UNCHANGED othersOfPlonk

\* MockProver::run(k, &circuit, vec![]).unwrap().assert_satisfied()
PlonkMockProver ==
    /\ p_pc = "assigned"
    /\ p_sat' = /\ \A i \in 1..Len(p_rows) : plonk_gate(p_rows[i]) = 0
                /\ \A c \in p_copies :
                      p_rows[c[2] + 1][c[1]] = p_rows[c[4] + 1][c[3]]
    /\ p_pc' = "done"
    /\ UNCHANGED <<p_x, p_rows, p_copies>>
    /\ UNCHANGED othersOfPlonk

PlonkNext == PlonkSynthesize \/ PlonkMockProver

SpecPlonk == PlonkInit /\ [][PlonkNext]_vars

\* C23: for every x the assignment of synthesize satisfies
\* q_a*a + q_b*b + q_c*c + q_ab*a*b + constant = 0 at every row: row 1
\* holds x, x, x^2 with q_c = -1, q_ab = 1; row 2 holds x, x, x^2 + 72 with
\* q_c = -1, q_ab = 1, constant = 72; every other row has all fixed cells 0.
C23_PlonkGateHolds ==
    (p_pc \in {"assigned", "done"}) =>
        /\ \A i \in 1..Len(p_rows) : plonk_gate(p_rows[i]) = 0
        /\ p_rows[2] = [a |-> p_x, b |-> p_x, c |-> FMul(p_x, p_x),
                        q_a |-> 0, q_b |-> 0, q_c |-> FieldP - 1, q_ab |-> 1,
                        constant |-> 0]
        /\ p_rows[3] = [a |-> p_x, b |-> p_x, c |-> FAdd(FMul(p_x, p_x), 72),
                        q_a |-> 0, q_b |-> 0, q_c |-> FieldP - 1, q_ab |-> 1,
                        constant |-> 72]
        /\ \A i \in (1..Len(p_rows)) \ {2, 3} :
              /\ p_rows[i].q_a = 0 /\ p_rows[i].q_b = 0 /\ p_rows[i].q_c = 0
              /\ p_rows[i].q_ab = 0 /\ p_rows[i].constant = 0
        /\ (p_pc = "done") => p_sat

\* the largest field element: x^2 = 1, row 2 holds 73
C23_Witness ==
    /\ p_pc = "done" /\ p_sat /\ p_x = FieldP - 1
    /\ p_rows[2].c = 1 /\ p_rows[3].c = 73

---------------------------------------------------------------------------
(* examples/merkletree.rs: verify_merkle_proof                             *)

\* const PROOF_SZ
PROOF_SZ == 3

\* gate.xor(a, b): a + b - 2ab - out = 0
GateXor(a, b) == FSub(FAdd(a, b), FMul(2, FMul(a, b)))

\* the Poseidon sponge on two elements (clear, update, squeeze): a fixed
\* function of the ordered pair, its output constrained to its inputs
poseidon_hash(a, b) ==
    LET t == FAdd(FMul(a, 31), FAdd(b, 7))
    IN  FAdd(FMul(t, t), FAdd(FMul(a, 17), b))

\* one round of the loop of verify_merkle_proof: the two hash inputs chosen
\* by b0, and the new cur_hash
merkle_round(cur_hash, node, b0) ==
    LET b1 == GateXor(b0, 1)
        f_ch == GateMul(b1, cur_hash)
        f_nd == GateMul(b0, node)
        first == GateAdd(f_ch, f_nd)
        s_ch == GateMul(b0, cur_hash)
        s_nd == GateMul(b1, node)
        snd == GateAdd(s_ch, s_nd)
    IN  [first |-> first, snd |-> snd, cur_hash |-> poseidon_hash(first, snd)]

\* the root of the path: the leaf hashed with each node, the current hash
\* first when the direction is 0 and second when it is 1
RECURSIVE MerkleRootOf(_, _, _)
MerkleRootOf(leaf, path, n) ==
    IF n = 0 THEN leaf
    ELSE LET below == MerkleRootOf(leaf, path, n - 1)
         IN  IF path[n].b0 = 0 THEN poseidon_hash(below, path[n].node)
             ELSE poseidon_hash(path[n].node, below)

\* the paths of the inputs: nodes, with directions that are bits or not
MerklePaths == [1..PROOF_SZ -> [node : 0..MaxVal, b0 : {0, 1, 2}]]

MerkleInit ==
    /\ m_leaf \in 0..MaxVal
    /\ m_path \in MerklePaths
    /\ m_root \in {0, 1, MerkleRootOf(m_leaf, m_path, PROOF_SZ)}
    /\ m_cur = 0 /\ m_i = 0 /\ m_equal = 0
    /\ m_public = <<>>
    /\ m_sat = TRUE
    /\ m_pc = "load"
    /\ IdleExceptMerkle

\* lines 25-49: the inputs are loaded as witnesses, the root and the leaf are
\* made public
MerkleLoad ==
    /\ m_pc = "load"
    /\ m_cur' = m_leaf
    /\ m_public' = <<m_root, m_leaf>>
    /\ m_i' = 0
    /\ m_pc' = "loop"
    /\ UNCHANGED <<m_root, m_leaf, m_path, m_equal, m_sat>>
    /\ UNCHANGED othersOfMerkle

\* lines 50-65: one level; every cell is the output of a gate on cells
\* already assigned, and nothing is asserted
MerkleLevel ==
    /\ m_pc = "loop" /\ m_i < Len(m_path)
    /\ m_cur' = merkle_round(m_cur, m_path[m_i + 1].node, m_path[m_i + 1].b0).cur_hash
    /\ m_i' = m_i + 1
    /\ UNCHANGED <<m_root, m_leaf, m_path, m_equal, m_public, m_sat, m_pc>>
    /\ UNCHANGED othersOfMerkle

\* lines 66-68: cur_hash is made public; the cell is_equal returns is dropped
MerkleFinish ==
    /\ m_pc = "loop" /\ m_i = Len(m_path)
    /\ m_public' = Append(m_public, m_cur)
    /\ m_equal' = GateIsEqual(m_cur, m_root)
    /\ m_pc' = "done"
    /\ UNCHANGED <<m_root, m_leaf, m_path, m_cur, m_i, m_sat>>
    /\ UNCHANGED othersOfMerkle

MerkleNext == MerkleLoad \/ MerkleLevel \/ MerkleFinish

SpecMerkle == MerkleInit /\ [][MerkleNext]_vars

\* C24: the constraints of verify_merkle_proof are satisfiable only when
\* the hash recomputed from the leaf and the (node, direction) pairs equals
\* the supplied tree_root, and only when every direction is 0 or 1.
C24_MerkleProofVerified ==
    (m_pc = "done" /\ m_sat) =>
        /\ m_cur = m_root
        /\ \A i \in 1..Len(m_path) : m_path[i].b0 \in {0, 1}

\* what the circuit does establish: the third public value is the hash
\* recomputed along the path, and is_equal's cell tells whether it is the root
MerklePublishesRecomputed ==
    (m_pc = "done") =>
        /\ m_sat
        /\ m_public = <<m_root, m_leaf, m_cur>>
        /\ m_equal = (IF m_cur = m_root THEN 1 ELSE 0)
        /\ (\A i \in 1..Len(m_path) : m_path[i].b0 \in {0, 1}) =>
              m_cur = MerkleRootOf(m_leaf, m_path, PROOF_SZ)

---------------------------------------------------------------------------
(* the layout: scaffold/mod.rs lines 168-190 and 378-401                   *)

\* the most rows a circuit function records
MaxRows == 2

\* the break points config derives from a trace; those of a pinning are
\* 1 .. MaxRows + 1
AutoBreakPoints(rows) == 10 + rows

\* config run in every stage
runs_config_always(stage) == TRUE

\* match stage { Prover => {}, _ => builder.config(..) }, and
\* if stage != CircuitBuilderStage::Prover { circuit.config(..) }
runs_config(stage) == stage # "Prover"

LayoutInit ==
    /\ y_scaffold \in {"circuit", "eth"}
    /\ y_stage \in Stages
    /\ y_pinning \in {Unset} \cup (1..(MaxRows + 1))
    /\ y_user \in [rows : 1..MaxRows, panics : BOOLEAN]
    /\ y_recorded = 0
    /\ y_config_runs = 0
    /\ y_configured = Unset
    /\ y_break_points = Unset
    /\ y_out = "running"
    /\ y_pc = "invoke"
    /\ IdleExceptLayout

\* (self.f)(..): line 379, lines 161-167
LayoutInvoke ==
    /\ y_pc = "invoke"
    /\ IF y_user.panics
       THEN y_pc' = "panicked" /\ y_out' = "circuit" /\ UNCHANGED y_recorded
       ELSE /\ y_recorded' = y_user.rows
            /\ y_pc' = IF y_scaffold = "circuit" THEN "config" ELSE "build"
            /\ UNCHANGED y_out
    /\ UNCHANGED <<y_scaffold, y_stage, y_pinning, y_user, y_config_runs,
                   y_configured, y_break_points>>
    /\ UNCHANGED othersOfLayout

\* CircuitScaffold::create_circuit lines 381-390
LayoutCircuitConfig ==
    /\ y_pc = "config" /\ y_scaffold = "circuit"
    /\ IF runs_config(y_stage)
       THEN /\ y_config_runs' = y_config_runs + 1
            /\ y_configured' = y_recorded
            /\ y_break_points' = AutoBreakPoints(y_recorded)
       ELSE UNCHANGED <<y_config_runs, y_configured, y_break_points>>
    /\ y_pc' = "build"
    /\ UNCHANGED <<y_scaffold, y_stage, y_pinning, y_user, y_recorded, y_out>>
    /\ UNCHANGED othersOfLayout

\* CircuitScaffold::create_circuit lines 392-400
LayoutCircuitBuild ==
    /\ y_pc = "build" /\ y_scaffold = "circuit"
    /\ IF y_stage = "Prover"
       THEN IF y_pinning = Unset
            THEN /\ y_pc' = "panicked" /\ y_out' = "Circuit pinning not found"
                 /\ UNCHANGED y_break_points
            ELSE /\ y_pc' = "done" /\ y_out' = "ok"
                 /\ y_break_points' = y_pinning
       ELSE /\ y_pc' = "done" /\ y_out' = "ok"
            /\ UNCHANGED y_break_points
    /\ UNCHANGED <<y_scaffold, y_stage, y_pinning, y_user, y_recorded,
                   y_config_runs, y_configured>>
    /\ UNCHANGED othersOfLayout

\* EthScaffold::create_circuit lines 168-185: pinning.map(|p| p.break_points)
LayoutEthBuild ==
    /\ y_pc = "build" /\ y_scaffold = "eth"
    /\ y_break_points' = y_pinning
    /\ y_pc' = "config"
    /\ UNCHANGED <<y_scaffold, y_stage, y_pinning, y_user, y_recorded,
                   y_config_runs, y_configured, y_out>>
    /\ UNCHANGED othersOfLayout

\* EthScaffold::create_circuit lines 186-189
LayoutEthConfig ==
    /\ y_pc = "config" /\ y_scaffold = "eth"
    /\ IF runs_config(y_stage)
       THEN /\ y_config_runs' = y_config_runs + 1
            /\ y_configured' = y_recorded
            /\ y_break_points' = AutoBreakPoints(y_recorded)
       ELSE UNCHANGED <<y_config_runs, y_configured, y_break_points>>
    /\ y_pc' = "done" /\ y_out' = "ok"
    /\ UNCHANGED <<y_scaffold, y_stage, y_pinning, y_user, y_recorded>>
    /\ UNCHANGED othersOfLayout

LayoutNext ==
    \/ LayoutInvoke \/ LayoutCircuitConfig \/ LayoutCircuitBuild
    \/ LayoutEthBuild \/ LayoutEthConfig

SpecLayout == LayoutInit /\ [][LayoutNext]_vars

\* C25: in both create_circuit the auto-configuration (config) is run,
\* after the circuit function has finished recording the trace, in the Mock
\* and Keygen stages only; in the Prover stage config is never run and the
\* break points come from the pinning; a Prover-stage build of
\* CircuitScaffold without a pinning aborts with 'Circuit pinning not found'.
C25_LayoutFixedAtKeygen ==
    /\ y_config_runs <= 1
    /\ (y_config_runs = 1) =>
          (y_stage \in {"Mock", "Keygen"} /\ y_configured = y_user.rows)
    /\ (y_pc = "done" /\ y_stage \in {"Mock", "Keygen"}) =>
          (y_config_runs = 1 /\ y_break_points = AutoBreakPoints(y_user.rows))
    /\ (y_stage = "Prover") =>
          /\ y_config_runs = 0 /\ y_configured = Unset
          /\ (y_pc = "done") => y_break_points = y_pinning
          /\ (y_scaffold = "circuit" /\ y_pinning = Unset /\ ~y_user.panics
                /\ y_pc \in {"done", "panicked"}) =>
                (y_pc = "panicked" /\ y_out = "Circuit pinning not found")

\* a proof built on the break points of the pinning, config never run
C25_Witness ==
    /\ y_pc = "done" /\ y_stage = "Prover" /\ y_scaffold = "circuit"
    /\ y_pinning = 2 /\ y_break_points = 2 /\ y_config_runs = 0
    /\ y_recorded = 1

---------------------------------------------------------------------------
(* cario.rs: decode_instruction on every kind of instruction word          *)

\* the number of instruction words spread over the whole range
NumWords == 2000

\* the stride of the spread words
WordStride == 977

\* the instruction words decoded: the smallest, the largest, and words
\* spread over all of 0 .. 2^InstrBits - 1
InstructionWords ==
    (0..MaxX)
    \cup {Pow2(InstrBits) - 1 - i : i \in 0..MaxX}
    \cup {(i * WordStride) % Pow2(InstrBits) : i \in 0..NumWords}

\* the decoded fields put back together, the offsets with their bias added
\* back in the field
Recombine(f) ==
    LET w == OffBits
        b == FFrom(Pow2(OffBits - 1))
    IN  FAdd(f.off_dst, b) + Pow2(w) * FAdd(f.off_op0, b)
        + Pow2(2 * w) * FAdd(f.off_op1, b)
        + Pow2(3 * w) * f.dst_reg + Pow2(3 * w + 1) * f.op0_reg
        + Pow2(3 * w + 2) * f.op1_src + Pow2(3 * w + 5) * f.res_logic
        + Pow2(3 * w + 7) * f.pc_update + Pow2(3 * w + 10) * f.ap_update
        + Pow2(3 * w + 12) * f.op_code

DecodeInit ==
    /\ d_instruction \in InstructionWords
    /\ d_decoded = <<>>
    /\ d_pc = "decode"
    /\ IdleExceptDecode

\* decode_instruction(ctx, gate, instruction)
DecodeRun ==
    /\ d_pc = "decode"
    /\ d_decoded' = decode_instruction(d_instruction)
    /\ d_pc' = "done"
    /\ UNCHANGED d_instruction
    /\ UNCHANGED othersOfDecode

DecodeNext == DecodeRun

SpecDecode == DecodeInit /\ [][DecodeNext]_vars

\* C26: for every instruction word below 2^63 the decoded fields recombine
\* to the word: (off_dst + 2^15) + 2^16 (off_op0 + 2^15) + 2^32 (off_op1 +
\* 2^15) + 2^48 dst_reg + 2^49 op0_reg + 2^50 op1_src + 2^53 res_logic +
\* 2^55 pc_update + 2^58 ap_update + 2^60 op_code, every field inside its
\* bit width.
C26_DecodeRoundTrip ==
    (d_pc = "done") =>
        /\ Recombine(d_decoded) = d_instruction
        /\ FAdd(d_decoded.off_dst, Pow2(OffBits - 1)) < Pow2(OffBits)
        /\ FAdd(d_decoded.off_op0, Pow2(OffBits - 1)) < Pow2(OffBits)
        /\ FAdd(d_decoded.off_op1, Pow2(OffBits - 1)) < Pow2(OffBits)
        /\ d_decoded.dst_reg \in {0, 1} /\ d_decoded.op0_reg \in {0, 1}
        /\ d_decoded.op1_src \in 0..7 /\ d_decoded.pc_update \in 0..7
        /\ d_decoded.op_code \in 0..7
        /\ d_decoded.res_logic \in 0..3 /\ d_decoded.ap_update \in 0..3

\* the largest word: every field at its largest
C26_Witness ==
    /\ d_pc = "done" /\ d_instruction = Pow2(InstrBits) - 1
    /\ d_decoded.op_code = 7 /\ d_decoded.ap_update = 3 /\ d_decoded.op1_src = 7
    /\ d_decoded.off_dst = Pow2(OffBits - 1) - 1

---------------------------------------------------------------------------
(* cario.rs: the assertions compute_next_ap_fp emits                       *)

\* the values the operands of compute_next_ap_fp are drawn from
NextApFpValues == (0..MaxWit) \cup {FieldP - 1}

NextApFpInputs ==
    [op_code : 0..7, ap_update : {0, 2, 3},
     pc : {0, 1}, instruction_size : {1, 2},
     res : NextApFpValues, dst : NextApFpValues,
     op0 : NextApFpValues, fp : NextApFpValues]

NextApFpInit ==
    /\ n_in \in NextApFpInputs
    /\ n_out = <<>>
    /\ n_pc = "call"
    /\ IdleExceptNextApFp

\* compute_next_ap_fp(ctx, gate, op_code, pc, instruction_size, res, dst,
\* op0, fp, ap, ap_update), ap being 1
NextApFpCall ==
    /\ n_pc = "call"
    /\ IF NextApFpAssertsPass(n_in.ap_update, n_in.op_code)
       THEN /\ n_out' = compute_next_ap_fp(n_in.op_code, n_in.pc,
                            n_in.instruction_size, n_in.res, n_in.dst,
                            n_in.op0, n_in.fp, 1, n_in.ap_update, Wit(0))
            /\ n_pc' = "returned"
       ELSE /\ n_out' = n_out
            /\ n_pc' = "panicked"
    /\ UNCHANGED n_in
    /\ UNCHANGED othersOfNextApFp

NextApFpNext == NextApFpCall

SpecNextApFp == NextApFpInit /\ [][NextApFpNext]_vars

\* C27: the constraints compute_next_ap_fp emits hold only if (op_code = 1
\* implies op0 = pc + instruction_size and dst = fp) and (op_code = 4
\* implies res = dst); for any other op_code the three checks impose
\* nothing on op0, dst and res.
C27_OpcodeAssertions ==
    (n_pc = "returned") =>
        (n_out.holds <=>
            /\ (n_in.op_code = 1) =>
                   /\ n_in.op0 = FAdd(n_in.pc, n_in.instruction_size)
                   /\ n_in.dst = n_in.fp
            /\ (n_in.op_code = 4) => (n_in.res = n_in.dst))

\* a call instruction whose dst is not fp, op0 being the return address
C27_Witness ==
    /\ n_pc = "returned" /\ n_in.op_code = 1
    /\ n_in.op0 = FAdd(n_in.pc, n_in.instruction_size)
    /\ n_in.dst # n_in.fp
    /\ ~n_out.holds

---------------------------------------------------------------------------
(* cario.rs: state_transition on undefined encodings                       *)

\* every combination of the flag fields, the offsets and registers at 0
AnyFlagFields ==
    [off_dst : {0}, off_op0 : {0}, off_op1 : {0},
     dst_reg : {0}, op0_reg : {0, 1},
     op1_src : 0..7, res_logic : 0..3, pc_update : 0..7,
     ap_update : 0..3, op_code : 0..7]

UndefinedInit == \E f \in AnyFlagFields : VmLoaded(f, 1)

UndefinedNext == VmStep

\* one call of state_transition on any instruction word
SpecUndefined == UndefinedInit /\ [][UndefinedNext]_vars

\* the flag fields of the instruction word are all defined encodings
DefinedEncoding(instr) ==
    LET f == RefFlags(instr)
    IN  /\ f.op1_src \in {0, 1, 2, 4}
        /\ f.pc_update \in {0, 1, 2, 4}
        /\ f.op_code \in {0, 1, 2, 4}
        /\ f.res_logic <= 2
        /\ f.ap_update <= 2

\* C28: for an instruction below 2^63, state_transition returns a next state
\* iff the decoded op1_src, pc_update and op_code are each in {0,1,2,4} and
\* res_logic and ap_update are each at most 2; for every other combination
\* it aborts with a Rust assertion instead of returning a value chosen by
\* the multiplexer.
C28_UndefinedEncodingsAbort ==
    /\ (vmpc = "halt") => DefinedEncoding(memory[MemLen])
    /\ (vmpc = "panicked") =>
           /\ ~DefinedEncoding(memory[MemLen])
           /\ <<pc, ap, fp>> = <<MemLen - 1, 1, 2>>
    /\ (vmpc = "run") => (cycle = 0)

\* op1_src = 3 alone is undefined and the call aborts
C28_Witness ==
    /\ vmpc = "panicked"
    /\ RefFlags(memory[MemLen]).op1_src = 3
    /\ RefFlags(memory[MemLen]).pc_update = 0
    /\ RefFlags(memory[MemLen]).op_code = 0
    /\ RefFlags(memory[MemLen]).res_logic = 0
    /\ RefFlags(memory[MemLen]).ap_update = 0

---------------------------------------------------------------------------
(* polymul.rs: some_algorithm_in_zk                                        *)

\* const DEGREE of polymul.rs
MUL_DEGREE == 3

\* the evaluation points, and the indices of prod_val: 0 .. 2 * DEGREE - 2
MulPoints == 0..(2 * MUL_DEGREE - 2)

\* (i as u64).pow(j)
RECURSIVE UPow(_, _)
UPow(i, j) == IF j = 0 THEN 1 ELSE i * UPow(i, j - 1)

RECURSIVE SumOver(_, _)
SumOver(f, S) ==
    IF S = {} THEN 0
    ELSE LET x == CHOOSE y \in S : TRUE
         IN  f[x] + SumOver(f, S \ {x})

\* the a_idx of the inner loops of lines 42-52
ProdTerms(i) ==
    IF i < MUL_DEGREE THEN 0..i ELSE (i - MUL_DEGREE + 1)..(MUL_DEGREE - 1)

\* prod_val[i] were u8 unbounded
prod_val_exact(input, i) ==
    SumOver([a_idx \in ProdTerms(i) |-> input.a[a_idx] * input.b[i - a_idx]],
            ProdTerms(i))

\* a u8 multiplication or addition of lines 45 and 49 overflows
ProdOverflows(input) ==
    \E i \in MulPoints :
        \/ prod_val_exact(input, i) > 255
        \/ \E a_idx \in ProdTerms(i) : input.a[a_idx] * input.b[i - a_idx] > 255

\* prod_val[i] where the u8 arithmetic wraps
prod_val(input, i) == prod_val_exact(input, i) % 256

\* lines 72-81
prod_evals(input, i) ==
    SumOver([j \in MulPoints |-> prod_val(input, j) * UPow(i, j)], MulPoints)

a_evals(input, i) ==
    SumOver([j \in 0..(MUL_DEGREE - 1) |-> input.a[j] * UPow(i, j)],
            0..(MUL_DEGREE - 1))

b_evals(input, i) ==
    SumOver([j \in 0..(MUL_DEGREE - 1) |-> input.b[j] * UPow(i, j)],
            0..(MUL_DEGREE - 1))

\* the constraint of gate.mul_add(a, b, c) with output cell out
MulAddHolds(a, b, c, out) == out = FAdd(FMul(a, b), c)

\* inputs of DEGREE + 1 coefficients, some of them large enough for the u8
\* products to overflow
PolyMulInputs ==
    {[a |-> [j \in 0..MUL_DEGREE |-> IF j = 0 THEN a0 ELSE IF j = 1 THEN a1
                                     ELSE IF j = 2 THEN a2 ELSE 0],
      b |-> [j \in 0..MUL_DEGREE |-> IF j = 0 THEN b0 ELSE IF j = 1 THEN b1
                                     ELSE IF j = 2 THEN b2 ELSE b3]] :
        a0 \in {0, 1, 16}, a1 \in {0, 1, 16}, a2 \in {0, 1, 16},
        b0 \in {0, 2, 16}, b1 \in {0, 16}, b2 \in {0, 1}, b3 \in {0, 1}}

PolyMulInit ==
    /\ pm_input \in PolyMulInputs
    /\ pm_build \in {"debug", "release"}
    /\ pm_cells = <<>>
    /\ pm_forged = FALSE
    /\ pm_public = <<>>
    /\ pm_sat = TRUE
    /\ pm_pc = "start"
    /\ IdleExceptPolyMul

\* lines 35-106: the precomputation and the load_witness calls
PolyMulAssign ==
    /\ pm_pc = "start"
    /\ IF ProdOverflows(pm_input) /\ pm_build = "debug"
       THEN /\ pm_pc' = "panicked"
            /\ UNCHANGED pm_cells
       ELSE /\ pm_cells' =
                [a_evals    |-> [i \in MulPoints |-> FFrom(a_evals(pm_input, i))],
                 b_evals    |-> [i \in MulPoints |-> FFrom(b_evals(pm_input, i))],
                 prod_evals |-> [i \in MulPoints |-> FFrom(prod_evals(pm_input, i))],
                 val        |-> [i \in MulPoints |-> 0]]
            /\ pm_pc' = "assigned"
    /\ UNCHANGED <<pm_input, pm_build, pm_forged, pm_public, pm_sat>>
    /\ UNCHANGED othersOfPolyMul

\* a prover that loads another value as prod_evals[i]
PolyMulForge ==
    /\ pm_pc = "assigned" /\ ~pm_forged
    /\ \E i \in MulPoints, v \in 0..MaxWit :
          /\ v # pm_cells.prod_evals[i]
          /\ pm_cells' = [pm_cells EXCEPT !.prod_evals[i] = v]
    /\ pm_forged' = TRUE
    /\ UNCHANGED <<pm_input, pm_build, pm_public, pm_sat, pm_pc>>
    /\ UNCHANGED othersOfPolyMul

\* lines 113-118: one mul_add per evaluation point, its output made public
PolyMulEnforce ==
    /\ pm_pc = "assigned"
    /\ pm_cells' = [pm_cells EXCEPT !.val =
           [i \in MulPoints |->
               GateMulAdd(pm_cells.a_evals[i], pm_cells.b_evals[i],
                          pm_cells.prod_evals[i])]]
    /\ pm_pc' = "enforced"
    /\ UNCHANGED <<pm_input, pm_build, pm_forged, pm_public, pm_sat>>
    /\ UNCHANGED othersOfPolyMul

\* a prover that writes another value into an output cell of mul_add
PolyMulForgeOut ==
    /\ pm_pc = "enforced"
    /\ \E i \in MulPoints, v \in 0..MaxVal :
          /\ v # pm_cells.val[i]
          /\ pm_cells' = [pm_cells EXCEPT !.val[i] = v]
    /\ pm_forged' = TRUE
    /\ pm_pc' = "forged_out"
    /\ UNCHANGED <<pm_input, pm_build, pm_public, pm_sat>>
    /\ UNCHANGED othersOfPolyMul

\* the mock prover on the cells, the instance column being make_public
PolyMulMockProver ==
    /\ pm_pc \in {"enforced", "forged_out"}
    /\ pm_public' = pm_cells.val
    /\ pm_sat' = \A i \in MulPoints :
           MulAddHolds(pm_cells.a_evals[i], pm_cells.b_evals[i],
                       pm_cells.prod_evals[i], pm_cells.val[i])
    /\ pm_pc' = "done"
    /\ UNCHANGED <<pm_input, pm_build, pm_cells, pm_forged>>
    /\ UNCHANGED othersOfPolyMul

PolyMulNext ==
    \/ PolyMulAssign
    \/ PolyMulForge
    \/ PolyMulEnforce
    \/ PolyMulForgeOut
    \/ PolyMulMockProver

SpecPolyMul == PolyMulInit /\ [][PolyMulNext]_vars

\* C29: some_algorithm_in_zk enforces, at every evaluation point i in
\* [0, 2*DEGREE-1), a_evals_assigned[i] * b_evals_assigned[i] =
\* prod_evals_assigned[i]: a witness whose prod_evals differ from
\* a_evals * b_evals is rejected, and the value made public at point i is
\* the product evaluation.
C29_ProductEnforced ==
    (pm_pc = "done" /\ pm_sat) =>
        \A i \in MulPoints :
            /\ FMul(pm_cells.a_evals[i], pm_cells.b_evals[i]) = pm_cells.prod_evals[i]
            /\ pm_public[i] = pm_cells.prod_evals[i]

\* what the emitted constraints do fix: the public value at point i is
\* a_evals[i] * b_evals[i] + prod_evals[i]
PolyMulPublishesMulAdd ==
    (pm_pc = "done" /\ pm_sat) =>
        \A i \in MulPoints :
            pm_public[i] = FAdd(FMul(pm_cells.a_evals[i], pm_cells.b_evals[i]),
                                pm_cells.prod_evals[i])

\* the precomputation itself is right where the u8 arithmetic does not
\* overflow: the honest prod_evals are the products of the evaluations
PolyMulHonestProduct ==
    (pm_pc \in {"assigned", "enforced", "done"} /\ ~pm_forged
        /\ ~ProdOverflows(pm_input)) =>
        \A i \in MulPoints :
            FMul(pm_cells.a_evals[i], pm_cells.b_evals[i]) = pm_cells.prod_evals[i]

---------------------------------------------------------------------------
(* merkletree_prove.rs: gen_merkle_root_proof                              *)

\* PROOF_SZ of merkletree_prove.rs (21 there), INP_SZ being 2^(PROOF_SZ - 1)
PROVE_PROOF_SZ == 5

INP_SZ == Pow2(PROVE_PROOF_SZ - 1)

\* n ^ 1
Xor1(n) == IF n % 2 = 0 THEN n + 1 ELSE n - 1

\* the inner loop body with the parent written over the left child
hash_pair_in_place_left(proof_vec, j) ==
    [proof_vec EXCEPT ![2 * j] = poseidon_hash(proof_vec[j * 2], proof_vec[j * 2 + 1])]

\* lines 100-114: proof_vec[j] = hash(proof_vec[j*2], proof_vec[j*2+1])
hash_pair_in_place(proof_vec, j) ==
    [proof_vec EXCEPT ![j] = poseidon_hash(proof_vec[j * 2], proof_vec[j * 2 + 1])]

\* the root of the subtree over the n leaves lo .. lo + n - 1, leaf i being
\* the field element i
RECURSIVE TreeRoot(_, _)
TreeRoot(lo, n) ==
    IF n = 1 THEN FFrom(lo)
    ELSE poseidon_hash(TreeRoot(lo, n \div 2), TreeRoot(lo + n \div 2, n \div 2))

\* node k of level l of the tree, level 0 being the leaves
NodeAt(l, k) == TreeRoot(k * Pow2(l), Pow2(l))

\* the sibling and the direction bit of levels 1 .. l on the path of leaf id
RECURSIVE PathLines(_, _)
PathLines(id, l) ==
    IF l = 0 THEN <<>>
    ELSE PathLines(id, l - 1)
         \o (IF l + 1 # PROVE_PROOF_SZ
             THEN << <<"hash", NodeAt(l, Xor1(id \div Pow2(l)))>>,
                     <<"bit", (id \div Pow2(l)) % 2>> >>
             ELSE <<>>)

\* line 71 sets prove_id to 3; the model runs every leaf
ProveInit ==
    /\ g_id0 \in 0..(INP_SZ - 1)
    /\ g_prove_id = g_id0
    /\ g_proof_vec = <<>>
    /\ g_level = <<>>
    /\ g_sz = 0
    /\ g_i = 0
    /\ g_j = 0
    /\ g_out = <<>>
    /\ g_pc = "start"
    /\ IdleExceptProve

\* lines 70-96: the leaves loaded, the leaf, its sibling and its bit printed
ProveStart ==
    /\ g_pc = "start"
    /\ LET proof_vec == [k \in 0..(INP_SZ - 1) |-> FFrom(k)]
       IN  /\ g_proof_vec' = proof_vec
           /\ g_level' = proof_vec
           /\ g_out' = << <<"hash", proof_vec[g_prove_id]>>,
                          <<"hash", proof_vec[Xor1(g_prove_id)]>>,
                          <<"bit", g_prove_id % 2>> >>
    /\ g_sz' = INP_SZ
    /\ g_i' = 1
    /\ g_j' = 0
    /\ g_pc' = "level"
    /\ UNCHANGED <<g_id0, g_prove_id>>
    /\ UNCHANGED othersOfProve

\* lines 97-98: the next level begins
ProveLevel ==
    /\ g_pc = "level" /\ g_i < PROVE_PROOF_SZ
    /\ g_prove_id' = g_prove_id \div 2
    /\ g_level' = g_proof_vec
    /\ g_j' = 0
    /\ g_pc' = "hash"
    /\ UNCHANGED <<g_id0, g_proof_vec, g_sz, g_i, g_out>>
    /\ UNCHANGED othersOfProve

\* lines 99-116: one iteration of the inner loop
ProveHash ==
    /\ g_pc = "hash" /\ g_j < g_sz \div 2
    /\ g_proof_vec' = hash_pair_in_place(g_proof_vec, g_j)
    /\ g_out' = IF g_j = Xor1(g_prove_id)
                THEN Append(g_out, <<"hash", poseidon_hash(g_proof_vec[g_j * 2],
                                                           g_proof_vec[g_j * 2 + 1])>>)
                ELSE g_out
    /\ g_j' = g_j + 1
    /\ UNCHANGED <<g_id0, g_prove_id, g_level, g_sz, g_i, g_pc>>
    /\ UNCHANGED othersOfProve

\* lines 117-125: the direction bit printed, sz halved
ProveLevelEnd ==
    /\ g_pc = "hash" /\ g_j = g_sz \div 2
    /\ g_out' = IF g_i + 1 # PROVE_PROOF_SZ
                THEN Append(g_out, <<"bit", g_prove_id % 2>>)
                ELSE g_out
    /\ g_sz' = g_sz \div 2
    /\ g_i' = g_i + 1
    /\ g_pc' = "level"
    /\ UNCHANGED <<g_id0, g_prove_id, g_proof_vec, g_level, g_j>>
    /\ UNCHANGED othersOfProve

\* lines 127-130: the root printed
ProveRoot ==
    /\ g_pc = "level" /\ g_i = PROVE_PROOF_SZ
    /\ g_out' = Append(g_out, <<"hash", g_proof_vec[0]>>)
    /\ g_pc' = "done"
    /\ UNCHANGED <<g_id0, g_prove_id, g_proof_vec, g_level, g_sz, g_i, g_j>>
    /\ UNCHANGED othersOfProve

ProveNext ==
    \/ ProveStart
    \/ ProveLevel
    \/ ProveHash
    \/ ProveLevelEnd
    \/ ProveRoot

SpecProve == ProveInit /\ [][ProveNext]_vars

\* C30: gen_merkle_root_proof reduces each level in place correctly: writing
\* the parent hash to proof_vec[j] never overwrites an entry a later
\* iteration of the same level still reads, so after each level the first
\* sz/2 entries are the pairwise hashes of the previous level's first sz
\* entries, and after the PROOF_SZ - 1 levels proof_vec[0] is the root of
\* the 2^(PROOF_SZ-1) leaves; the sibling printed at each level is the node
\* at index prove_id XOR 1 of that level and the direction bit is
\* prove_id mod 2.
C30_InPlaceLevels ==
    /\ (g_pc = "hash") =>
           \A k \in 0..(g_sz - 1) :
               /\ (k < g_j) =>
                      g_proof_vec[k] = poseidon_hash(g_level[2 * k], g_level[2 * k + 1])
               /\ (k >= 2 * g_j) => g_proof_vec[k] = g_level[k]
    /\ (g_pc \in {"level", "done"}) =>
           \A k \in 0..(g_sz - 1) : g_proof_vec[k] = NodeAt(g_i - 1, k)
    /\ (g_pc = "level") =>
           g_out = << <<"hash", FFrom(g_id0)>>, <<"hash", FFrom(Xor1(g_id0))>>,
                      <<"bit", g_id0 % 2>> >> \o PathLines(g_id0, g_i - 1)
    /\ (g_pc = "done") =>
           /\ g_sz = 1
           /\ g_proof_vec[0] = TreeRoot(0, INP_SZ)
           /\ g_out[Len(g_out)] = <<"hash", TreeRoot(0, INP_SZ)>>

\* leaf 3 in the first level: the parent of leaves 0 and 1, its sibling,
\* is written over leaf 0 and printed while later pairs are still unread
C30_Witness ==
    /\ g_pc = "hash" /\ g_id0 = 3 /\ g_i = 1 /\ g_j = 1
    /\ g_proof_vec[0] # g_level[0]
    /\ g_out[Len(g_out)] = <<"hash", poseidon_hash(0, 1)>>
    /\ g_sz >= 4

=============================================================================
